---- MODULE Spec2Model ----
(***************************************************************************)
(* block-mesh: greedy_quads and visible_block_faces over a flat voxel      *)
(* buffer, with the bounds validation both run first.                      *)
(*                                                                         *)
(* Words.  A u32 (and an i32) is modelled by its two's-complement bit      *)
(* pattern read as an integer of -2^31 .. 2^31-1: 0xFFFFFFFF is -1.  On    *)
(* these representatives a wrapping add, sub or mul is the integer         *)
(* operation (all magnitudes of the model are small), `as_ivec3` and       *)
(* `as_uvec3` keep the bits, and what differs between the two types is the *)
(* order (ULt is the unsigned one) and the overflow test of the checked    *)
(* operators (AddOverflows, SubOverflows).  The variable overflow_checks   *)
(* is the build profile: with it, a plain `+` or `-` that overflows        *)
(* panics; without it, it wraps.                                           *)
(***************************************************************************)
EXTENDS Integers, Sequences, FiniteSets, TLC

VARIABLES
    voxels,           \* the caller's voxel buffer: a sequence of voxel values (index i is voxels[i+1])
    shape,            \* the dimensions of the caller's Shape
    qmin, qmax,       \* the query region passed as min and max
    faces,            \* the six OrientedBlockFace values passed as faces
    overflow_checks,  \* build profile: TRUE panics on integer overflow, FALSE wraps
    ubuf,             \* UnitQuadBuffer: [groups]
    gbuf,             \* GreedyQuadsBuffer: [groups, visited]
    pc,               \* position of the caller / of the running greedy_quads call
    cur,              \* loop position of greedy_quads_for_face: [face, slices, slice_min, k]
    sres,             \* how the last visible_block_faces call ended, with the indices it used
    gres,             \* how the last greedy_quads call ended, with the indices it used
    pre,              \* the output buffers as they were when the running call was entered
    geo,              \* a face and a quad handed to the geometry functions, with what they returned
    par,              \* six face sweeps run side by side: [pc, cur, st, visited, groups]
    aoc,              \* a call of calculate_ao: [face, stride, result]
    calls             \* how many times the caller has called visible_block_faces again

vars == <<voxels, shape, qmin, qmax, faces, overflow_checks, ubuf, gbuf, pc, cur, sres, gres, pre,
          geo, par, aoc, calls>>

(***************************************************************************)
(* Bounds of the model.                                                    *)
(***************************************************************************)
\* Query coordinates are drawn from 0 .. MaxCoord and the largest u32.
MaxCoord == 4
\* Solid cubes have an edge of 1 .. MaxCube cells.
MaxCube == 2
\* Quads handed to the geometry functions are 1 .. MaxQuad wide and high.
MaxQuad == 2

(***************************************************************************)
(* Voxel values.  A voxel type implements Voxel and MergeVoxel; the model  *)
(* uses four values whose three keys vary independently enough to tell the *)
(* rules apart: a Translucent and an Opaque value share a merge value, and *)
(* the two see-through values differ in their facing-neighbour value.      *)
(***************************************************************************)
VoxelValues == {"E0", "T1", "O1", "O2"}

get_visibility(v) ==
    CASE v = "E0" -> "Empty"
      [] v = "T1" -> "Translucent"
      [] OTHER -> "Opaque"

merge_value(v) ==
    CASE v = "E0" -> 0
      [] v = "T1" -> 1
      [] v = "O1" -> 1
      [] OTHER -> 2

merge_value_facing_neighbour(v) ==
    CASE v = "T1" -> 1
      [] OTHER -> 0

(***************************************************************************)
(* u32 arithmetic on two's-complement representatives.                     *)
(***************************************************************************)
\* a < b as unsigned words
ULt(a, b) == IF (a < 0) = (b < 0) THEN a < b ELSE b < 0
ULe(a, b) == a = b \/ ULt(a, b)
UMin(a, b) == IF ULt(a, b) THEN a ELSE b
UMax(a, b) == IF ULt(a, b) THEN b ELSE a
\* the unsigned sum a + b does not fit in 32 bits
AddOverflows(a, b) ==
    IF a < 0 /\ b < 0 THEN TRUE
    ELSE IF a >= 0 /\ b >= 0 THEN FALSE
    ELSE a + b >= 0
\* the unsigned difference a - b is negative
SubOverflows(a, b) == ULt(a, b)

VAdd(p, q) == <<p[1] + q[1], p[2] + q[2], p[3] + q[3]>>
VSub(p, q) == <<p[1] - q[1], p[2] - q[2], p[3] - q[3]>>
VSplat(c) == <<c, c, c>>
VAddOverflows(p, q) == \E i \in 1 .. 3 : AddOverflows(p[i], q[i])
VSubOverflows(p, q) == \E i \in 1 .. 3 : SubOverflows(p[i], q[i])

(***************************************************************************)
(* ndshape: the linearization x + X*y + X*Y*z of ConstShape3u32 and        *)
(* RuntimeShape, its inverse and its size.                                 *)
(***************************************************************************)
ShapeSize(dims) == dims[1] * dims[2] * dims[3]
Linearize(dims, p) == p[1] + dims[1] * p[2] + dims[1] * dims[2] * p[3]
Delinearize(dims, i) ==
    <<i % dims[1], (i \div dims[1]) % dims[2], i \div (dims[1] * dims[2])>>

(***************************************************************************)
(* ilattice Extent: a minimum and a shape.                                 *)
(***************************************************************************)
from_min_and_shape(minimum, eshape) == [minimum |-> minimum, shape |-> eshape]
\* on UVec3, where clamping the shape at zero changes nothing
from_min_and_lub(minimum, lub) == from_min_and_shape(minimum, VSub(lub, minimum))
\* on IVec3: a negative shape is clamped to zero
from_min_and_lub_i(minimum, lub) ==
    from_min_and_shape(minimum,
        [i \in 1 .. 3 |-> IF lub[i] - minimum[i] < 0 THEN 0 ELSE lub[i] - minimum[i]])
from_min_and_max(minimum, max) == from_min_and_lub(minimum, VAdd(max, VSplat(1)))
from_min_and_max_i(minimum, max) == from_min_and_lub_i(minimum, VAdd(max, VSplat(1)))
least_upper_bound(e) == VAdd(e.minimum, e.shape)
padded(e, pad) ==
    from_min_and_shape(VSub(e.minimum, VSplat(pad)), VAdd(e.shape, VSplat(2 * pad)))
\* on UVec3: every component of the shape is at least 1
check_positive_shape(e) == \A i \in 1 .. 3 : ULe(1, e.shape[i])
intersection(a, b) ==
    LET minimum == [i \in 1 .. 3 |-> UMax(a.minimum[i], b.minimum[i])]
        lub == [i \in 1 .. 3 |-> UMin(least_upper_bound(a)[i], least_upper_bound(b)[i])]
    IN  from_min_and_lub(minimum, lub)
is_subset_of(a, b) == intersection(a, b) = a
\* the length of the unsigned range lo .. hi (hi excluded); empty when hi <= lo
URangeLen(lo, hi) == IF ULt(lo, hi) THEN hi - lo ELSE 0
\* iter3: the points of an Extent<UVec3>, x fastest, then y, then z
iter3(e) ==
    LET lub == least_upper_bound(e)
        nx == URangeLen(e.minimum[1], lub[1])
        ny == URangeLen(e.minimum[2], lub[2])
        nz == URangeLen(e.minimum[3], lub[3])
    IN  [k \in 1 .. (nx * ny * nz) |->
            <<e.minimum[1] + ((k - 1) % nx),
              e.minimum[2] + (((k - 1) \div nx) % ny),
              e.minimum[3] + ((k - 1) \div (nx * ny))>>]
\* the points of an extent as a set
ExtentPoints(e) == {iter3(e)[k] : k \in DOMAIN iter3(e)}

(***************************************************************************)
(* Coordinate frame: axes, permutations, oriented faces.                   *)
(***************************************************************************)
get_unit_vector(axis) == [i \in 1 .. 3 |-> IF i = axis + 1 THEN 1 ELSE 0]

\* AxisPermutation::axes, as axis indices (X = 0, Y = 1, Z = 2)
axes(permutation) ==
    CASE permutation = "Xyz" -> <<0, 1, 2>>
      [] permutation = "Zxy" -> <<2, 0, 1>>
      [] permutation = "Yzx" -> <<1, 2, 0>>
      [] permutation = "Zyx" -> <<2, 1, 0>>
      [] permutation = "Xzy" -> <<0, 2, 1>>
      [] permutation = "Yxz" -> <<1, 0, 2>>

\* OrientedBlockFace::new
OrientedBlockFace(n_sign, permutation) ==
    [n_sign |-> n_sign,
     permutation |-> permutation,
     n |-> get_unit_vector(axes(permutation)[1]),
     u |-> get_unit_vector(axes(permutation)[2]),
     v |-> get_unit_vector(axes(permutation)[3])]

signed_normal(face) == [i \in 1 .. 3 |-> face.n[i] * face.n_sign]

AxisPermutations == {"Xyz", "Zxy", "Yzx", "Zyx", "Xzy", "Yxz"}

\* a parity that takes every permutation for an even one
sign_always_even(permutation) == 1

\* AxisPermutation::sign
sign(permutation) ==
    CASE permutation = "Xyz" -> 1
      [] permutation = "Zxy" -> 1
      [] permutation = "Yzx" -> 1
      [] permutation = "Zyx" -> 0 - 1
      [] permutation = "Xzy" -> 0 - 1
      [] permutation = "Yxz" -> 0 - 1

\* the vector v scaled by k (UVec3 * u32)
VScale(v, k) == [i \in 1 .. 3 |-> v[i] * k]

\* corners that are not moved along the normal
quad_corners_on_minimum(face, quad) ==
    <<quad.minimum,
      VAdd(quad.minimum, VScale(face.u, quad.width)),
      VAdd(quad.minimum, VScale(face.v, quad.height)),
      VAdd(VAdd(quad.minimum, VScale(face.u, quad.width)), VScale(face.v, quad.height))>>

\* OrientedBlockFace::quad_corners
quad_corners(face, quad) ==
    LET w_vec == VScale(face.u, quad.width)
        h_vec == VScale(face.v, quad.height)
        minu_minv == IF face.n_sign > 0 THEN VAdd(quad.minimum, face.n) ELSE quad.minimum
    IN  <<minu_minv,
          VAdd(minu_minv, w_vec),
          VAdd(minu_minv, h_vec),
          VAdd(VAdd(minu_minv, w_vec), h_vec)>>

\* quad_indices
quad_indices(start, counter_clockwise) ==
    IF counter_clockwise
        THEN <<start, start + 1, start + 2, start + 1, start + 3, start + 2>>
    ELSE <<start, start + 2, start + 1, start + 1, start + 2, start + 3>>

\* OrientedBlockFace::quad_mesh_indices
quad_mesh_indices(face, start) ==
    quad_indices(start, face.n_sign * sign(face.permutation) > 0)

\* the four UVs for the pair (flip_u, flip_v)
TexCoordsOf(flip_u, flip_v, quad) ==
    CASE ~flip_u /\ ~flip_v ->
             << <<0, 0>>, <<quad.width, 0>>, <<0, quad.height>>, <<quad.width, quad.height>> >>
      [] flip_u /\ ~flip_v ->
             << <<quad.width, 0>>, <<0, 0>>, <<quad.width, quad.height>>, <<0, quad.height>> >>
      [] ~flip_u /\ flip_v ->
             << <<0, quad.height>>, <<quad.width, quad.height>>, <<0, 0>>, <<quad.width, 0>> >>
      [] flip_u /\ flip_v ->
             << <<quad.width, quad.height>>, <<0, quad.height>>, <<quad.width, 0>>, <<0, 0>> >>

\* UVs whose U flip does not depend on the sign of the normal
tex_coords_unsigned(face, u_flip_face, flip_v, quad) ==
    TexCoordsOf(u_flip_face = axes(face.permutation)[1], flip_v, quad)

\* OrientedBlockFace::tex_coords
tex_coords(face, u_flip_face, flip_v, quad) ==
    LET face_normal_axis == axes(face.permutation)[1]
        flip_u == IF face.n_sign < 0 THEN u_flip_face # face_normal_axis
                  ELSE u_flip_face = face_normal_axis
    IN  TexCoordsOf(flip_u, flip_v, quad)

\* a configuration whose +Y face uses the odd permutation Yxz
Y_UP_CONFIG_WITH_YXZ ==
    [faces |-> <<OrientedBlockFace(0 - 1, "Xzy"),
                 OrientedBlockFace(0 - 1, "Yzx"),
                 OrientedBlockFace(0 - 1, "Zxy"),
                 OrientedBlockFace(1, "Xzy"),
                 OrientedBlockFace(1, "Yxz"),
                 OrientedBlockFace(1, "Zxy")>>,
     u_flip_face |-> 0]

RIGHT_HANDED_Y_UP_CONFIG ==
    [faces |-> <<OrientedBlockFace(-1, "Xzy"),
                 OrientedBlockFace(-1, "Yzx"),
                 OrientedBlockFace(-1, "Zxy"),
                 OrientedBlockFace(1, "Xzy"),
                 OrientedBlockFace(1, "Yzx"),
                 OrientedBlockFace(1, "Zxy")>>,
     u_flip_face |-> 0]

FaceIds == 1 .. 6

(***************************************************************************)
(* Bounds validation.                                                      *)
(***************************************************************************)
\* a validation that looks at the buffer's length only after the extents
assert_in_bounds_size_last(len, dims, min, max, checks) ==
    LET local_extent == from_min_and_shape(VSplat(0), dims)
        query_extent == from_min_and_max(min, max)
    IN  IF ~check_positive_shape(local_extent) THEN "InvalidShape"
        ELSE IF ~check_positive_shape(query_extent) THEN "InvalidExtent"
        ELSE IF ~is_subset_of(query_extent, local_extent) THEN "OutOfBounds"
        ELSE IF ~(ShapeSize(dims) <= len) THEN "BufferTooSmall"
        ELSE "ok"

\* assert_in_bounds: "ok", or the check that fails.  "Overflow" is a checked
\* subtraction or addition inside the Extent arithmetic that panics.
assert_in_bounds(len, dims, min, max, checks) ==
    LET local_extent == from_min_and_shape(VSplat(0), dims)
        query_extent == from_min_and_max(min, max)
        q_lub == least_upper_bound(query_extent)
        i_min == [i \in 1 .. 3 |-> UMax(min[i], 0)]
        i_lub == [i \in 1 .. 3 |-> UMin(q_lub[i], dims[i])]
    IN  IF ~(ShapeSize(dims) <= len) THEN "BufferTooSmall"
        ELSE IF ~check_positive_shape(local_extent) THEN "InvalidShape"
        ELSE IF checks /\ (VAddOverflows(max, VSplat(1)) \/ VSubOverflows(VAdd(max, VSplat(1)), min))
            THEN "Overflow"
        ELSE IF ~check_positive_shape(query_extent) THEN "InvalidExtent"
        ELSE IF checks /\ (VAddOverflows(min, query_extent.shape) \/ VSubOverflows(i_lub, i_min))
            THEN "Overflow"
        ELSE IF ~is_subset_of(query_extent, local_extent) THEN "OutOfBounds"
        ELSE "ok"

\* an interior that keeps the extent's two boundary layers across X
InteriorKeepX(min, max) ==
    LET extent == from_min_and_max_i(min, max)
        interior == padded(extent, -1)
    IN  from_min_and_shape(<<min[1], interior.minimum[2], interior.minimum[3]>>,
                           <<extent.shape[1], interior.shape[2], interior.shape[3]>>)

\* the interior both algorithms walk: the query extent padded by -1 in IVec3,
\* its minimum and shape then cast to UVec3
Interior(min, max) ==
    LET extent == from_min_and_max_i(min, max)
        interior == padded(extent, -1)
    IN  from_min_and_shape(interior.minimum, interior.shape)

(***************************************************************************)
(* Reads of the voxel buffer.                                              *)
(***************************************************************************)
\* index i (a u32) is inside a buffer of the given length
InBuf(len, i) == 0 <= i /\ i < len
\* get_unchecked(i): the value read when i is in the buffer; an index outside it
\* is undefined behaviour, which the caller of VoxelAt records
VoxelAt(vox, i) == IF InBuf(Len(vox), i) THEN vox[i + 1] ELSE "E0"

\* a rule that meshes every face whose adjacent voxel is not Opaque
VisibleAgainstAny(voxel, adjacent) == get_visibility(adjacent) # "Opaque"

\* the visibility rule both algorithms apply to (this voxel, adjacent voxel)
VisibleAgainst(voxel, adjacent) ==
    CASE get_visibility(adjacent) = "Empty" -> TRUE
      [] get_visibility(adjacent) = "Translucent" -> get_visibility(voxel) = "Opaque"
      [] OTHER -> FALSE

(***************************************************************************)
(* The simple culling algorithm.                                           *)
(***************************************************************************)
\* the per-face linear stride: linearize of the signed normal cast to UVec3
kernel_strides(dims, fcs) == [f \in FaceIds |-> Linearize(dims, signed_normal(fcs[f]))]

\* the match of visible_block_faces on cell p and face f: the face needs a mesh
SimpleFaceNeedsMesh(vox, dims, fcs, p, f) ==
    LET p_index == Linearize(dims, p)
        p_voxel == VoxelAt(vox, p_index)
        neighbor_index == p_index + kernel_strides(dims, fcs)[f]
        neighbor_voxel == VoxelAt(vox, neighbor_index)
    IN  /\ get_visibility(p_voxel) # "Empty"
        /\ VisibleAgainst(p_voxel, neighbor_voxel)

\* the buffer indices the loop body uses for cell p
SimpleReads(vox, dims, fcs, p) ==
    LET p_index == Linearize(dims, p)
    IN  {p_index} \cup
        (IF get_visibility(VoxelAt(vox, p_index)) = "Empty" THEN {}
         ELSE {p_index + kernel_strides(dims, fcs)[f] : f \in FaceIds})

\* a visible_block_faces that clears the groups before it pushes
visible_block_faces_clearing(vox, dims, min, max, fcs, output, checks) ==
    LET r == assert_in_bounds(Len(vox), dims, min, max, checks)
        interior == Interior(min, max)
        cells == iter3(interior)
        reads == UNION {SimpleReads(vox, dims, fcs, cells[k]) : k \in DOMAIN cells}
        Pushed(f) ==
            LET Needs(p) == SimpleFaceNeedsMesh(vox, dims, fcs, p, f)
                sel == SelectSeq(cells, Needs)
            IN  [k \in 1 .. Len(sel) |-> [minimum |-> sel[k]]]
    IN  IF r # "ok"
            THEN [st |-> "panic", why |-> r, groups |-> output.groups, reads |-> {}]
        ELSE IF checks /\ VAddOverflows(interior.minimum, interior.shape)
            THEN [st |-> "panic", why |-> "LoopOverflow", groups |-> output.groups, reads |-> {}]
        ELSE IF \E i \in reads : ~InBuf(Len(vox), i)
            THEN [st |-> "ub", why |-> "OutOfBoundsRead", groups |-> output.groups, reads |-> reads]
        ELSE [st |-> "ok", why |-> "ok",
              groups |-> [f \in FaceIds |-> Pushed(f)],
              reads |-> reads]

\* visible_block_faces: [st, why, groups, reads].  st is "ok" (returned), "panic"
\* or "ub" (an unchecked read outside the buffer); groups is the buffer's groups
\* when the call ends.
visible_block_faces(vox, dims, min, max, fcs, output, checks) ==
    LET r == assert_in_bounds(Len(vox), dims, min, max, checks)
        interior == Interior(min, max)
        cells == iter3(interior)
        reads == UNION {SimpleReads(vox, dims, fcs, cells[k]) : k \in DOMAIN cells}
        Pushed(f) ==
            LET Needs(p) == SimpleFaceNeedsMesh(vox, dims, fcs, p, f)
                sel == SelectSeq(cells, Needs)
            IN  [k \in 1 .. Len(sel) |-> [minimum |-> sel[k]]]
    IN  IF r # "ok"
            THEN [st |-> "panic", why |-> r, groups |-> output.groups, reads |-> {}]
        ELSE IF checks /\ VAddOverflows(interior.minimum, interior.shape)
            THEN [st |-> "panic", why |-> "LoopOverflow", groups |-> output.groups, reads |-> {}]
        ELSE IF \E i \in reads : ~InBuf(Len(vox), i)
            THEN [st |-> "ub", why |-> "OutOfBoundsRead", groups |-> output.groups, reads |-> reads]
        ELSE [st |-> "ok", why |-> "ok",
              groups |-> [f \in FaceIds |-> output.groups[f] \o Pushed(f)],
              reads |-> reads]

(***************************************************************************)
(* The greedy meshing engine: the merge strategy.                          *)
(***************************************************************************)
\* the FaceStrides built by greedy_quads_for_face
FaceStrides(dims, face) ==
    LET n_stride == Linearize(dims, face.n)
    IN  [n_stride |-> n_stride,
         u_stride |-> Linearize(dims, face.u),
         v_stride |-> Linearize(dims, face.v),
         visibility_offset |-> IF face.n_sign > 0 THEN n_stride ELSE 0 - n_stride]

\* a face test that does not skip Empty voxels
face_needs_mesh_of_any_voxel(voxel, voxel_stride, visibility_offset, vox, visited) ==
    IF ~InBuf(Len(visited), voxel_stride)
        THEN [st |-> "panic", val |-> FALSE, reads |-> {voxel_stride}]
    ELSE IF visited[voxel_stride + 1]
        THEN [st |-> "ok", val |-> FALSE, reads |-> {voxel_stride}]
    ELSE IF ~InBuf(Len(vox), voxel_stride + visibility_offset)
        THEN [st |-> "ub", val |-> FALSE, reads |-> {voxel_stride, voxel_stride + visibility_offset}]
    ELSE [st |-> "ok",
          val |-> VisibleAgainst(voxel, VoxelAt(vox, voxel_stride + visibility_offset)),
          reads |-> {voxel_stride, voxel_stride + visibility_offset}]

\* face_needs_mesh: [st, val, reads]
face_needs_mesh(voxel, voxel_stride, visibility_offset, vox, visited) ==
    IF get_visibility(voxel) = "Empty"
        THEN [st |-> "ok", val |-> FALSE, reads |-> {}]
    ELSE IF ~InBuf(Len(visited), voxel_stride)
        THEN [st |-> "panic", val |-> FALSE, reads |-> {voxel_stride}]
    ELSE IF visited[voxel_stride + 1]
        THEN [st |-> "ok", val |-> FALSE, reads |-> {voxel_stride}]
    ELSE IF ~InBuf(Len(vox), voxel_stride + visibility_offset)
        THEN [st |-> "ub", val |-> FALSE, reads |-> {voxel_stride, voxel_stride + visibility_offset}]
    ELSE [st |-> "ok",
          val |-> VisibleAgainst(voxel, VoxelAt(vox, voxel_stride + visibility_offset)),
          reads |-> {voxel_stride, voxel_stride + visibility_offset}]

\* get_face_index: the face id 0..5 read off the two delinearized cells
get_face_index(dims, visibility_offset, start_stride) ==
    LET c == Delinearize(dims, start_stride)
        nc == Delinearize(dims, start_stride + visibility_offset)
    IN  IF nc[1] < c[1] THEN 0
        ELSE IF nc[2] < c[2] THEN 1
        ELSE IF nc[3] < c[3] THEN 2
        ELSE IF nc[1] > c[1] THEN 3
        ELSE IF nc[2] > c[2] THEN 4
        ELSE IF nc[3] > c[3] THEN 5
        ELSE 0

\* the 8 cells calculate_ao looks at around cell c, in the order of `neighbours`
AoNeighbours(c, current_face) ==
    LET x == c[1]
        y == c[2]
        z == c[3]
    IN  IF current_face = 0 \/ current_face = 3
            THEN << <<x, y, z + 1>>, <<x, y - 1, z + 1>>, <<x, y - 1, z>>, <<x, y - 1, z - 1>>,
                    <<x, y, z - 1>>, <<x, y + 1, z - 1>>, <<x, y + 1, z>>, <<x, y + 1, z + 1>> >>
        ELSE IF current_face = 1 \/ current_face = 4
            THEN << <<x, y, z + 1>>, <<x - 1, y, z + 1>>, <<x - 1, y, z>>, <<x - 1, y, z - 1>>,
                    <<x, y, z - 1>>, <<x + 1, y, z - 1>>, <<x + 1, y, z>>, <<x + 1, y, z + 1>> >>
        ELSE << <<x + 1, y, z>>, <<x + 1, y - 1, z>>, <<x, y - 1, z>>, <<x - 1, y - 1, z>>,
                <<x - 1, y, z>>, <<x - 1, y + 1, z>>, <<x, y + 1, z>>, <<x + 1, y + 1, z>> >>

\* a corner value that is 3 minus the number of Opaque cells in every case
AoCornerOfCount(a, d, b) ==
    3 - ((IF a THEN 1 ELSE 0) + (IF d THEN 1 ELSE 0) + (IF b THEN 1 ELSE 0))

\* one corner of the pattern, from its two side cells a, b and its diagonal cell d
AoCorner(a, d, b) ==
    IF a /\ b THEN 0
    ELSE IF d /\ (a \/ b) THEN 1
    ELSE IF a \/ d \/ b THEN 2
    ELSE 3

\* the four corner values of calculate_ao, from the opacity of its 8 neighbours
AoPattern(op) ==
    <<AoCorner(op[3], op[4], op[5]),
      AoCorner(op[1], op[2], op[3]),
      AoCorner(op[5], op[6], op[7]),
      AoCorner(op[7], op[8], op[1])>>

\* calculate_ao once the 8 neighbour cells nbs and their indices idx are known
AoOfNeighbours(vox, checks, overflows, nbs, idx) ==
    IF checks /\ (overflows \/ \E k \in 1 .. 8 : \E i \in 1 .. 3 : nbs[k][i] < 0)
        THEN [st |-> "panic", ao |-> <<0, 0, 0, 0>>, reads |-> {}]
    ELSE IF \E k \in 1 .. 8 : ~InBuf(Len(vox), idx[k])
        THEN [st |-> "panic", ao |-> <<0, 0, 0, 0>>, reads |-> {idx[k] : k \in 1 .. 8}]
    ELSE [st |-> "ok",
          ao |-> AoPattern([k \in 1 .. 8 |-> get_visibility(VoxelAt(vox, idx[k])) = "Opaque"]),
          reads |-> {idx[k] : k \in 1 .. 8}]

\* calculate_ao once the 8 neighbour cells nbs are known
AoAround(vox, dims, checks, overflows, nbs) ==
    AoOfNeighbours(vox, checks, overflows, nbs, [k \in 1 .. 8 |-> Linearize(dims, nbs[k])])

\* calculate_ao: [st, ao, reads]
calculate_ao(vox, dims, visibility_offset, stride, current_face, checks) ==
    AoAround(vox, dims, checks, AddOverflows(stride, visibility_offset),
             AoNeighbours(Delinearize(dims, stride + visibility_offset), current_face))

\* tests of one cell that do not compare the merge value of the voxel
RowCellMergesAnyValue(cx, quad_value, quad_neighbour_value, row_stride, rd, fnm, ao_row, ao_start) ==
    IF fnm.st # "ok" THEN [st |-> fnm.st, go |-> FALSE, reads |-> rd \cup fnm.reads]
    ELSE IF ~fnm.val THEN [st |-> "ok", go |-> FALSE, reads |-> rd \cup fnm.reads]
    ELSE IF ao_row.st # "ok" \/ ao_start.st # "ok"
        THEN [st |-> "panic", go |-> FALSE,
              reads |-> rd \cup fnm.reads \cup ao_row.reads \cup ao_start.reads]
    ELSE [st |-> "ok",
          go |-> /\ merge_value_facing_neighbour(
                        VoxelAt(cx.vox, row_stride + cx.visibility_offset)) = quad_neighbour_value
                 /\ ao_row.ao = ao_start.ao,
          reads |-> rd \cup fnm.reads \cup ao_row.reads \cup ao_start.reads]

\* tests of one cell that do not compare the value of the facing neighbour
RowCellMergesAnyNeighbour(cx, quad_value, quad_neighbour_value, row_stride, rd, fnm, ao_row, ao_start) ==
    IF fnm.st # "ok" THEN [st |-> fnm.st, go |-> FALSE, reads |-> rd \cup fnm.reads]
    ELSE IF ~fnm.val THEN [st |-> "ok", go |-> FALSE, reads |-> rd \cup fnm.reads]
    ELSE IF ao_row.st # "ok" \/ ao_start.st # "ok"
        THEN [st |-> "panic", go |-> FALSE,
              reads |-> rd \cup fnm.reads \cup ao_row.reads \cup ao_start.reads]
    ELSE [st |-> "ok",
          go |-> /\ merge_value(VoxelAt(cx.vox, row_stride)) = quad_value
                 /\ ao_row.ao = ao_start.ao,
          reads |-> rd \cup fnm.reads \cup ao_row.reads \cup ao_start.reads]

\* the tests of get_row_width on the cell at row_stride once its two voxels are
\* read (rd), and face_needs_mesh (fnm) and the two patterns (ao_row, ao_start)
\* are known: [st, go, reads], go when the cell joins the row
RowCellMerges(cx, quad_value, quad_neighbour_value, row_stride, rd, fnm, ao_row, ao_start) ==
    IF fnm.st # "ok" THEN [st |-> fnm.st, go |-> FALSE, reads |-> rd \cup fnm.reads]
    ELSE IF ~fnm.val THEN [st |-> "ok", go |-> FALSE, reads |-> rd \cup fnm.reads]
    ELSE IF ao_row.st # "ok" \/ ao_start.st # "ok"
        THEN [st |-> "panic", go |-> FALSE,
              reads |-> rd \cup fnm.reads \cup ao_row.reads \cup ao_start.reads]
    ELSE [st |-> "ok",
          go |-> /\ merge_value(VoxelAt(cx.vox, row_stride)) = quad_value
                 /\ merge_value_facing_neighbour(
                        VoxelAt(cx.vox, row_stride + cx.visibility_offset)) = quad_neighbour_value
                 /\ ao_row.ao = ao_start.ao,
          reads |-> rd \cup fnm.reads \cup ao_row.reads \cup ao_start.reads]

\* one iteration of the loop of get_row_width, on the cell at row_stride: [st, go, reads]
RowCell(cx, quad_value, quad_neighbour_value, start_stride, row_stride) ==
    IF ~InBuf(Len(cx.vox), row_stride)
        THEN [st |-> "ub", go |-> FALSE, reads |-> {row_stride}]
    ELSE IF cx.checks /\ AddOverflows(row_stride, cx.visibility_offset)
        THEN [st |-> "panic", go |-> FALSE, reads |-> {row_stride}]
    ELSE IF ~InBuf(Len(cx.vox), row_stride + cx.visibility_offset)
        THEN [st |-> "ub", go |-> FALSE,
              reads |-> {row_stride, row_stride + cx.visibility_offset}]
    ELSE RowCellMerges(cx, quad_value, quad_neighbour_value, row_stride,
             {row_stride, row_stride + cx.visibility_offset},
             face_needs_mesh(VoxelAt(cx.vox, row_stride), row_stride,
                             cx.visibility_offset, cx.vox, cx.visited),
             calculate_ao(cx.vox, cx.dims, cx.visibility_offset, row_stride,
                          get_face_index(cx.dims, cx.visibility_offset, start_stride),
                          cx.checks),
             calculate_ao(cx.vox, cx.dims, cx.visibility_offset, start_stride,
                          get_face_index(cx.dims, cx.visibility_offset, start_stride),
                          cx.checks))

\* get_row_width: [st, w, reads].  The loop is unrolled from quad_width = w; the
\* memo `aos` only saves recomputation (the voxels do not change during a call),
\* so both patterns are computed by calculate_ao.
RECURSIVE RowWidthFrom(_, _, _, _, _, _, _, _)
\* the row after the cell at width w has been tested
RowWidthNext(cx, quad_value, quad_neighbour_value, start_stride, delta_stride, max_width, w, reads, cell) ==
    IF cell.st = "ok" /\ cell.go
        THEN RowWidthFrom(cx, quad_value, quad_neighbour_value, start_stride, delta_stride,
                          max_width, w + 1, reads \cup cell.reads)
    ELSE [st |-> cell.st, w |-> w, reads |-> reads \cup cell.reads]

RowWidthFrom(cx, quad_value, quad_neighbour_value, start_stride, delta_stride, max_width, w, reads) ==
    IF ~ULt(w, max_width) THEN [st |-> "ok", w |-> w, reads |-> reads]
    ELSE RowWidthNext(cx, quad_value, quad_neighbour_value, start_stride, delta_stride,
                      max_width, w, reads,
                      RowCell(cx, quad_value, quad_neighbour_value, start_stride,
                              start_stride + w * delta_stride))

get_row_width(cx, quad_value, quad_neighbour_value, start_stride, delta_stride, max_width) ==
    IF cx.checks /\ AddOverflows(start_stride, cx.visibility_offset)
        THEN [st |-> "panic", w |-> 0, reads |-> {}]
    ELSE RowWidthFrom(cx, quad_value, quad_neighbour_value, start_stride, delta_stride,
                      max_width, 0, {})

\* the height loop of find_quad, unrolled from quad_height = h
RECURSIVE HeightFrom(_, _, _, _, _, _, _, _, _)
\* the height after the row at height h has been measured
HeightNext(cx, quad_value, quad_neighbour_value, row_start_stride, fs, quad_width, max_height, h, reads, row) ==
    IF row.st = "ok" /\ ~ULt(row.w, quad_width)
        THEN HeightFrom(cx, quad_value, quad_neighbour_value, row_start_stride + fs.v_stride,
                        fs, quad_width, max_height, h + 1, reads \cup row.reads)
    ELSE [st |-> row.st, h |-> h, reads |-> reads \cup row.reads]

HeightFrom(cx, quad_value, quad_neighbour_value, row_start_stride, fs, quad_width, max_height, h, reads) ==
    IF ~ULt(h, max_height) THEN [st |-> "ok", h |-> h, reads |-> reads]
    ELSE HeightNext(cx, quad_value, quad_neighbour_value, row_start_stride, fs, quad_width,
                    max_height, h, reads,
                    get_row_width(cx, quad_value, quad_neighbour_value, row_start_stride,
                                  fs.u_stride, quad_width))

\* the quad of find_quad, from its width and the outcome of the height loop
QuadOfRows(rd0, w, rows) ==
    [st |-> rows.st, w |-> w, h |-> rows.h, reads |-> rd0 \cup rows.reads]

\* find_quad after its first row
FindQuadRows(cx, quad_value, quad_neighbour_value, min_index, max_height, fs, first) ==
    IF first.st # "ok"
        THEN [st |-> first.st, w |-> first.w, h |-> 0,
              reads |-> {min_index, min_index + fs.visibility_offset} \cup first.reads]
    ELSE QuadOfRows({min_index, min_index + fs.visibility_offset}, first.w,
                    HeightFrom(cx, quad_value, quad_neighbour_value, min_index + fs.v_stride,
                               fs, first.w, max_height, 1, first.reads))

\* find_quad once the values to merge on are known
FindQuadOf(cx, quad_value, quad_neighbour_value, min_index, max_width, max_height, fs) ==
    FindQuadRows(cx, quad_value, quad_neighbour_value, min_index, max_height, fs,
                 get_row_width(cx, quad_value, quad_neighbour_value, min_index,
                               fs.u_stride, max_width))

\* a find_quad whose first row may grow one cell past max_width
find_quad_past_slice(min_index, max_width, max_height, fs, vox, visited, dims, checks) ==
    IF ~InBuf(Len(vox), min_index)
        THEN [st |-> "ub", w |-> 0, h |-> 0, reads |-> {min_index}]
    ELSE IF checks /\ AddOverflows(min_index, fs.visibility_offset)
        THEN [st |-> "panic", w |-> 0, h |-> 0, reads |-> {min_index}]
    ELSE IF ~InBuf(Len(vox), min_index + fs.visibility_offset)
        THEN [st |-> "ub", w |-> 0, h |-> 0,
              reads |-> {min_index, min_index + fs.visibility_offset}]
    ELSE FindQuadOf([vox |-> vox, visited |-> visited, dims |-> dims, checks |-> checks,
                     visibility_offset |-> fs.visibility_offset],
                    merge_value(VoxelAt(vox, min_index)),
                    merge_value_facing_neighbour(VoxelAt(vox, min_index + fs.visibility_offset)),
                    min_index, max_width + 1, max_height, fs)

\* VoxelMerger::find_quad: [st, w, h, reads]
find_quad(min_index, max_width, max_height, fs, vox, visited, dims, checks) ==
    IF ~InBuf(Len(vox), min_index)
        THEN [st |-> "ub", w |-> 0, h |-> 0, reads |-> {min_index}]
    ELSE IF checks /\ AddOverflows(min_index, fs.visibility_offset)
        THEN [st |-> "panic", w |-> 0, h |-> 0, reads |-> {min_index}]
    ELSE IF ~InBuf(Len(vox), min_index + fs.visibility_offset)
        THEN [st |-> "ub", w |-> 0, h |-> 0,
              reads |-> {min_index, min_index + fs.visibility_offset}]
    ELSE FindQuadOf([vox |-> vox, visited |-> visited, dims |-> dims, checks |-> checks,
                     visibility_offset |-> fs.visibility_offset],
                    merge_value(VoxelAt(vox, min_index)),
                    merge_value_facing_neighbour(VoxelAt(vox, min_index + fs.visibility_offset)),
                    min_index, max_width, max_height, fs)

\* ndcopy fill3(quad_shape, true, visited, shape, quad_min): the indices it sets
FillIndices(dims, quad_min, quad_shape) ==
    {Linearize(dims, p) : p \in ExtentPoints(from_min_and_shape(quad_min, quad_shape))}

(***************************************************************************)
(* The greedy meshing engine: the sweep.  greedy_quads runs in steps, one  *)
(* for the entry (validation, reset), one for the head of each face sweep  *)
(* and one for each cell of each slice; each step operator gives the       *)
(* values of pc, cur, gbuf and gres after it.                              *)
(***************************************************************************)
EmptyGroups == [f \in FaceIds |-> << >>]
NoRun == [st |-> "none", why |-> "none", reads |-> {}]
NoCursor == [face |-> 0, slices |-> 0, slice_min |-> <<0, 0, 0>>, k |-> 0]

\* a reset that keeps the quads of the groups
reset_keeping_groups(buffer, size) ==
    [groups |-> buffer.groups,
     visited |-> IF size # Len(buffer.visited) THEN [i \in 1 .. size |-> FALSE]
                 ELSE buffer.visited]

\* a reset that always replaces the visited bitmap
reset_replacing_visited(buffer, size) ==
    [groups |-> EmptyGroups, visited |-> [i \in 1 .. size |-> FALSE]]

\* GreedyQuadsBuffer::reset
reset(buffer, size) ==
    [groups |-> EmptyGroups,
     visited |-> IF size # Len(buffer.visited) THEN [i \in 1 .. size |-> FALSE]
                 ELSE buffer.visited]

\* greedy_quads up to the loop over the faces: validation, reset
greedy_quads_entry(vox, dims, min, max, output, checks) ==
    LET r == assert_in_bounds(Len(vox), dims, min, max, checks)
    IN  IF r # "ok"
            THEN [pc |-> "done", cur |-> NoCursor, gbuf |-> output,
                  gres |-> [st |-> "panic", why |-> r, reads |-> {}]]
        ELSE [pc |-> "face", cur |-> [NoCursor EXCEPT !.face = 1],
              gbuf |-> reset(output, Len(vox)),
              gres |-> [st |-> "running", why |-> "ok", reads |-> {}]]

\* the slice of a face sweep whose minimum is slice_min
SliceExtent(face, interior, slice_min) ==
    LET i_n == axes(face.permutation)[1] + 1
    IN  from_min_and_shape(slice_min,
            <<IF i_n = 1 THEN 1 ELSE interior.shape[1],
              IF i_n = 2 THEN 1 ELSE interior.shape[2],
              IF i_n = 3 THEN 1 ELSE interior.shape[3]>>)

\* the sweep of face f is over: the next face, or the return of greedy_quads
FinishFace(f, buffer, reads) ==
    IF f = 6
        THEN [pc |-> "done", cur |-> NoCursor, gbuf |-> buffer,
              gres |-> [st |-> "ok", why |-> "ok", reads |-> reads]]
    ELSE [pc |-> "face", cur |-> [NoCursor EXCEPT !.face = f + 1], gbuf |-> buffer,
          gres |-> [st |-> "running", why |-> "ok", reads |-> reads]]

\* the call ends in a panic or in undefined behaviour
Abort(st, why, buffer, reads) ==
    [pc |-> "done", cur |-> NoCursor, gbuf |-> buffer,
     gres |-> [st |-> st, why |-> why, reads |-> reads]]

\* greedy_quads_for_face up to its first slice: visited.fill(false), the slice extent
begin_face(dims, min, max, fcs, f, output, reads, checks) ==
    LET face == fcs[f]
        interior == Interior(min, max)
        num_slices == interior.shape[axes(face.permutation)[1] + 1]
        slice_extent == SliceExtent(face, interior, interior.minimum)
        cells == iter3(slice_extent)
        cleared == [output EXCEPT !.visited = [i \in DOMAIN output.visited |-> FALSE]]
    IN  IF num_slices = 0 THEN FinishFace(f, cleared, reads)
        ELSE IF checks /\ VAddOverflows(slice_extent.minimum, slice_extent.shape)
            THEN Abort("panic", "LoopOverflow", cleared, reads)
        ELSE IF Len(cells) = 0
            \* num_slices empty slices; with 2^31 of them or more the slice minimum
            \* runs over the end of u32 before the loop ends
            THEN IF checks /\ num_slices < 0
                     THEN Abort("panic", "LoopOverflow", cleared, reads)
                 ELSE FinishFace(f, cleared, reads)
        ELSE [pc |-> "cell",
              cur |-> [face |-> f, slices |-> num_slices, slice_min |-> interior.minimum, k |-> 1],
              gbuf |-> cleared,
              gres |-> [st |-> "running", why |-> "ok", reads |-> reads]]

\* after the cell c.k: the next cell of the slice, the next slice, or the end of the face
Advance(c, face, buffer, reads, ncells) ==
    IF c.k < ncells
        THEN [pc |-> "cell", cur |-> [c EXCEPT !.k = c.k + 1], gbuf |-> buffer,
              gres |-> [st |-> "running", why |-> "ok", reads |-> reads]]
    ELSE IF c.slices - 1 # 0
        THEN [pc |-> "cell",
              cur |-> [c EXCEPT !.k = 1, !.slices = c.slices - 1,
                                !.slice_min = VAdd(c.slice_min, face.n)],
              gbuf |-> buffer,
              gres |-> [st |-> "running", why |-> "ok", reads |-> reads]]
    ELSE FinishFace(c.face, buffer, reads)

\* quad_shape: 1 along the normal, the width along U, the height along V
QuadShape(face, w, h) ==
    LET ax == axes(face.permutation)
    IN  <<IF ax[1] = 0 THEN 1 ELSE IF ax[2] = 0 THEN w ELSE h,
          IF ax[1] = 1 THEN 1 ELSE IF ax[2] = 1 THEN w ELSE h,
          IF ax[1] = 2 THEN 1 ELSE IF ax[2] = 2 THEN w ELSE h>>

\* a push that leaves the visited bitmap as it was
PushQuadUnmarked(output, f, quad_min, quad_min_voxel, w, h, filled) ==
    [groups |-> [output.groups EXCEPT ![f] =
                    Append(@, [minimum |-> quad_min, width |-> w, height |-> h,
                               voxel |-> quad_min_voxel])],
     visited |-> output.visited]

\* a push that puts the quad in front of the group
PushQuadFirst(output, f, quad_min, quad_min_voxel, w, h, filled) ==
    [groups |-> [output.groups EXCEPT ![f] =
                    << [minimum |-> quad_min, width |-> w, height |-> h,
                        voxel |-> quad_min_voxel] >> \o @],
     visited |-> [i \in DOMAIN output.visited |-> output.visited[i] \/ (i - 1) \in filled]]

\* the quad found at quad_min is marked visited (the cells `filled`) and pushed
PushQuad(output, f, quad_min, quad_min_voxel, w, h, filled) ==
    [groups |-> [output.groups EXCEPT ![f] =
                    Append(@, [minimum |-> quad_min, width |-> w, height |-> h,
                               voxel |-> quad_min_voxel])],
     visited |-> [i \in DOMAIN output.visited |-> output.visited[i] \/ (i - 1) \in filled]]

\* the end of an iteration that found the quad `quad`, which covers the cells `filled`
SweepPush(c, output, reads, face, ncells, quad_min, quad_min_voxel, quad, filled) ==
    Advance(c, face, PushQuad(output, c.face, quad_min, quad_min_voxel, quad.w, quad.h, filled),
            reads \cup quad.reads \cup filled, ncells)

\* an iteration after find_quad
SweepQuad(dims, c, output, reads, face, ncells, quad_min, quad_min_voxel, quad) ==
    IF quad.st # "ok"
        THEN Abort(quad.st, IF quad.st = "panic" THEN "FindQuadPanic" ELSE "OutOfBoundsRead",
                   output, reads \cup quad.reads)
    ELSE SweepPush(c, output, reads, face, ncells, quad_min, quad_min_voxel, quad,
                   FillIndices(dims, quad_min, QuadShape(face, quad.w, quad.h)))

\* an iteration after face_needs_mesh
SweepMesh(vox, dims, c, output, reads, checks, face, ncells, slice_ub, quad_min, quad_min_index, fnm) ==
    IF fnm.st # "ok"
        THEN Abort(fnm.st, "OutOfBoundsRead", output, reads \cup fnm.reads)
    ELSE IF ~fnm.val
        THEN Advance(c, face, output, reads \cup fnm.reads, ncells)
    ELSE SweepQuad(dims, c, output, reads \cup fnm.reads, face, ncells, quad_min,
                   VoxelAt(vox, quad_min_index),
                   find_quad(quad_min_index,
                             slice_ub[axes(face.permutation)[2] + 1]
                                 - quad_min[axes(face.permutation)[2] + 1],
                             slice_ub[axes(face.permutation)[3] + 1]
                                 - quad_min[axes(face.permutation)[3] + 1],
                             FaceStrides(dims, face), vox, output.visited, dims, checks))

\* an iteration on the cell quad_min, whose index is quad_min_index
SweepAt(vox, dims, c, output, reads, checks, face, ncells, slice_ub, quad_min, quad_min_index) ==
    IF ~InBuf(Len(vox), quad_min_index)
        THEN Abort("ub", "OutOfBoundsRead", output, reads \cup {quad_min_index})
    ELSE SweepMesh(vox, dims, c, output, reads \cup {quad_min_index}, checks, face, ncells,
                   slice_ub, quad_min, quad_min_index,
                   face_needs_mesh(VoxelAt(vox, quad_min_index), quad_min_index,
                                   FaceStrides(dims, face).visibility_offset, vox,
                                   output.visited))

\* an iteration on the cell c.k of the slice whose cells are `cells`
SweepSlice(vox, dims, c, output, reads, checks, face, cells, slice_ub) ==
    SweepAt(vox, dims, c, output, reads, checks, face, Len(cells), slice_ub,
            cells[c.k], Linearize(dims, cells[c.k]))

\* one iteration of `for quad_min in slice_extent.iter3()`
sweep_cell(vox, dims, min, max, fcs, c, output, reads, checks) ==
    SweepSlice(vox, dims, c, output, reads, checks, fcs[c.face],
               iter3(SliceExtent(fcs[c.face], Interior(min, max), c.slice_min)),
               least_upper_bound(SliceExtent(fcs[c.face], Interior(min, max), c.slice_min)))

\* the steps of greedy_quads from the step result r to the end of the call
RECURSIVE GreedyRun(_, _, _, _, _, _, _)
GreedyRun(vox, dims, min, max, fcs, r, checks) ==
    IF r.pc = "face"
        THEN GreedyRun(vox, dims, min, max, fcs,
                       begin_face(dims, min, max, fcs, r.cur.face, r.gbuf, r.gres.reads, checks),
                       checks)
    ELSE IF r.pc = "cell"
        THEN GreedyRun(vox, dims, min, max, fcs,
                       sweep_cell(vox, dims, min, max, fcs, r.cur, r.gbuf, r.gres.reads, checks),
                       checks)
    ELSE r

\* greedy_quads as one call: the step result at its end
greedy_quads(vox, dims, min, max, fcs, output, checks) ==
    GreedyRun(vox, dims, min, max, fcs,
              greedy_quads_entry(vox, dims, min, max, output, checks), checks)

(***************************************************************************)
(* Inputs.                                                                 *)
(***************************************************************************)
\* the shape of the meshed grids: 4 x 4 x 3, whose interior is 2 x 2 x 1
GridShape == <<4, 4, 3>>
\* a shape with a zero dimension, which assert_in_bounds rejects
FlatShape == <<4, 0, 3>>

\* UnitQuadBuffer::new() and GreedyQuadsBuffer::new(size)
NewUnitQuadBuffer == [groups |-> EmptyGroups]
NewGreedyQuadsBuffer(size) == [groups |-> EmptyGroups, visited |-> [i \in 1 .. size |-> FALSE]]

\* buffers an earlier call has populated
UsedUnitQuadBuffer ==
    [groups |-> [f \in FaceIds |-> IF f = 4 THEN << [minimum |-> <<1, 1, 1>>] >> ELSE << >>]]
UsedGreedyQuadsBuffer(size) ==
    [groups |-> [f \in FaceIds |->
                    IF f = 4 THEN << [minimum |-> <<1, 1, 1>>, width |-> 1, height |-> 1,
                                      voxel |-> "O1"] >>
                    ELSE << >>],
     visited |-> [i \in 1 .. size |-> i = Linearize(GridShape, <<1, 1, 1>>) + 1]]

FullMin == <<0, 0, 0>>
FullMax == VSub(GridShape, VSplat(1))
InteriorIdx == {Linearize(GridShape, p) : p \in ExtentPoints(Interior(FullMin, FullMax))}
HaloIdx == (0 .. ShapeSize(GridShape) - 1) \ InteriorIdx

\* a grid with interior cells a, whose halo is Empty but for cell h, which is v
GridVoxels(a, h, v) ==
    [i \in 1 .. ShapeSize(GridShape) |->
        IF i - 1 \in InteriorIdx THEN a[i - 1]
        ELSE IF i - 1 = h THEN v
        ELSE "E0"]

\* a buffer of the given length: an Opaque block in the interior cells of the grid
BlockVoxels(len) == [i \in 1 .. len |-> IF i - 1 \in InteriorIdx THEN "O1" ELSE "E0"]

\* a k x k x k block of one Opaque value inside a 1-cell Empty boundary
CubeShape(k) == <<k + 2, k + 2, k + 2>>
CubeVoxels(k) ==
    [i \in 1 .. ShapeSize(CubeShape(k)) |->
        IF \A j \in 1 .. 3 : Delinearize(CubeShape(k), i - 1)[j] \in 1 .. k THEN "O1" ELSE "E0"]

\* an all-Empty buffer that holds the grid
EmptyVoxels == [i \in 1 .. ShapeSize(GridShape) |-> "E0"]

\* u32::MAX
U32Max == 0 - 1
Coords == (0 .. MaxCoord) \cup {U32Max}

\* the regions that leave the whole grid on at most one axis
Regions ==
    {r \in (Coords \X Coords \X Coords) \X (Coords \X Coords \X Coords) :
        \E i \in 1 .. 3 : \A j \in (1 .. 3) \ {i} :
            r[1][j] = FullMin[j] /\ r[2][j] = FullMax[j]}

\* a caller that meshes the whole grid into fresh buffers: any interior, an Empty halo
InteriorInput ==
    /\ shape = GridShape
    /\ qmin = FullMin
    /\ qmax = FullMax
    /\ overflow_checks \in BOOLEAN
    /\ \E a \in [InteriorIdx -> VoxelValues] : voxels = GridVoxels(a, -1, "E0")
    /\ ubuf = NewUnitQuadBuffer
    /\ gbuf = NewGreedyQuadsBuffer(ShapeSize(GridShape))

\* the same caller with a non-Empty interior and one halo cell that is not Empty
HaloInput ==
    /\ shape = GridShape
    /\ qmin = FullMin
    /\ qmax = FullMax
    /\ overflow_checks = FALSE
    /\ \E a \in [InteriorIdx -> {"T1", "O1"}], h \in HaloIdx, v \in {"T1", "O1"} :
           voxels = GridVoxels(a, h, v)
    /\ ubuf = NewUnitQuadBuffer
    /\ gbuf = NewGreedyQuadsBuffer(ShapeSize(GridShape))

\* a caller that passes any region of Regions, a buffer of any length near the
\* shape's size, and buffers that are fresh or that an earlier call has populated
RegionInput ==
    /\ \/ shape = GridShape /\ \E r \in Regions : qmin = r[1] /\ qmax = r[2]
       \/ shape = FlatShape /\ qmin = FullMin /\ qmax = FullMax
    /\ overflow_checks \in BOOLEAN
    /\ \E d \in {-1, 0, 1} : voxels = BlockVoxels(ShapeSize(GridShape) + d)
    /\ \/ ubuf = UsedUnitQuadBuffer /\ gbuf = UsedGreedyQuadsBuffer(ShapeSize(GridShape))
       \/ ubuf = NewUnitQuadBuffer /\ gbuf = NewGreedyQuadsBuffer(ShapeSize(GridShape))

\* a caller that meshes any region of Regions of an all-Empty grid, into buffers
\* that are fresh or that an earlier call has populated
EmptyInput ==
    /\ shape = GridShape
    /\ \E r \in Regions : qmin = r[1] /\ qmax = r[2]
    /\ overflow_checks \in BOOLEAN
    /\ voxels = EmptyVoxels
    /\ \/ ubuf = UsedUnitQuadBuffer /\ gbuf = UsedGreedyQuadsBuffer(ShapeSize(GridShape))
       \/ ubuf = NewUnitQuadBuffer /\ gbuf = NewGreedyQuadsBuffer(ShapeSize(GridShape))

\* a caller that meshes a whole grid holding a solid cube, into fresh buffers
CubeInput ==
    /\ \E k \in 1 .. MaxCube :
           /\ shape = CubeShape(k)
           /\ voxels = CubeVoxels(k)
           /\ qmax = VSub(CubeShape(k), VSplat(1))
           /\ gbuf = NewGreedyQuadsBuffer(ShapeSize(CubeShape(k)))
    /\ qmin = FullMin
    /\ overflow_checks \in BOOLEAN
    /\ ubuf = NewUnitQuadBuffer

\* no geometry function has been called
NoGeo == [step |-> "none"]
\* no face sweeps run side by side
NoPar == [pc |-> "none"]
\* no call of calculate_ao by the caller
NoAoc == [face |-> 0]

Init ==
    /\ faces = RIGHT_HANDED_Y_UP_CONFIG.faces
    /\ (InteriorInput \/ HaloInput \/ RegionInput \/ EmptyInput \/ CubeInput)
    /\ geo = NoGeo
    /\ par = NoPar
    /\ aoc = NoAoc
    /\ calls = 0
    /\ pc = "simple"
    /\ cur = NoCursor
    /\ sres = NoRun
    /\ gres = NoRun
    /\ pre = [ubuf |-> ubuf, gbuf |-> gbuf]

(***************************************************************************)
(* Operations.                                                             *)
(***************************************************************************)
\* the caller calls visible_block_faces
VisibleBlockFaces ==
    /\ pc = "simple"
    /\ \E r \in {visible_block_faces(voxels, shape, qmin, qmax, faces, ubuf, overflow_checks)} :
           /\ ubuf' = [ubuf EXCEPT !.groups = r.groups]
           /\ sres' = [st |-> r.st, why |-> r.why, reads |-> r.reads]
    /\ pre' = [pre EXCEPT !.ubuf = ubuf]
    /\ pc' = "greedy"
    /\ UNCHANGED <<voxels, shape, qmin, qmax, faces, overflow_checks, gbuf, cur, gres, geo, par, aoc, calls>>

\* a step of greedy_quads leaves the caller's inputs and the unit quads alone
GreedyStep(r) ==
    /\ pc' = r.pc
    /\ cur' = r.cur
    /\ gbuf' = r.gbuf
    /\ gres' = r.gres
    /\ UNCHANGED <<voxels, shape, qmin, qmax, faces, overflow_checks, ubuf, sres, geo, par, aoc, calls>>

\* the caller calls greedy_quads
GreedyQuads ==
    /\ pc = "greedy"
    /\ pre' = [pre EXCEPT !.gbuf = gbuf]
    /\ \E r \in {greedy_quads_entry(voxels, shape, qmin, qmax, gbuf, overflow_checks)} :
           GreedyStep(r)

\* greedy_quads enters greedy_quads_for_face for the face cur.face
BeginFace ==
    /\ pc = "face"
    /\ UNCHANGED pre
    /\ \E r \in {begin_face(shape, qmin, qmax, faces, cur.face, gbuf, gres.reads,
                            overflow_checks)} :
           GreedyStep(r)

\* greedy_quads_for_face handles the cell cur.k of the current slice
SweepCell ==
    /\ pc = "cell"
    /\ UNCHANGED pre
    /\ \E r \in {sweep_cell(voxels, shape, qmin, qmax, faces, cur, gbuf, gres.reads,
                            overflow_checks)} :
           GreedyStep(r)

Next ==
    \/ VisibleBlockFaces
    \/ GreedyQuads
    \/ BeginFace
    \/ SweepCell

Spec == Init /\ [][Next]_vars

(***************************************************************************)
(* A caller that keeps one GreedyQuadsBuffer over a sequence of calls.     *)
(***************************************************************************)
\* the chunks the caller meshes, in any order and any number of times: a solid
\* cube in a 3x3x3 grid, the 4x4x3 grid with a mixed interior, a part of the
\* 4x4x3 grid, an all-Empty grid, and a region assert_in_bounds rejects
ReuseInputs ==
    {[voxels |-> CubeVoxels(1), shape |-> CubeShape(1),
      qmin |-> FullMin, qmax |-> VSub(CubeShape(1), VSplat(1))],
     [voxels |-> [EmptyVoxels EXCEPT ![Linearize(GridShape, <<1, 1, 1>>) + 1] = "O1",
                                     ![Linearize(GridShape, <<2, 1, 1>>) + 1] = "O1",
                                     ![Linearize(GridShape, <<1, 2, 1>>) + 1] = "O2",
                                     ![Linearize(GridShape, <<2, 2, 1>>) + 1] = "T1"],
      shape |-> GridShape, qmin |-> FullMin, qmax |-> FullMax],
     [voxels |-> BlockVoxels(ShapeSize(GridShape)), shape |-> GridShape,
      qmin |-> FullMin, qmax |-> <<2, 3, 2>>],
     [voxels |-> EmptyVoxels, shape |-> GridShape, qmin |-> FullMin, qmax |-> FullMax],
     [voxels |-> BlockVoxels(ShapeSize(GridShape)), shape |-> GridShape,
      qmin |-> FullMin, qmax |-> <<4, 3, 2>>]}

\* the caller allocates the buffer for one of its chunk sizes and starts the first call
ReuseInit ==
    /\ faces = RIGHT_HANDED_Y_UP_CONFIG.faces
    /\ \E i \in ReuseInputs :
           voxels = i.voxels /\ shape = i.shape /\ qmin = i.qmin /\ qmax = i.qmax
    /\ overflow_checks \in BOOLEAN
    /\ \E i \in ReuseInputs : gbuf = NewGreedyQuadsBuffer(Len(i.voxels))
    /\ ubuf = NewUnitQuadBuffer
    /\ pc = "greedy"
    /\ cur = NoCursor
    /\ sres = NoRun
    /\ gres = NoRun
    /\ pre = [ubuf |-> ubuf, gbuf |-> gbuf]
    /\ geo = NoGeo
    /\ par = NoPar
    /\ aoc = NoAoc
    /\ calls = 0

\* after a call has ended, the caller takes another chunk and calls greedy_quads
\* again with the same buffer
Recall ==
    /\ pc = "done"
    /\ gres.st # "ub"
    /\ \E i \in ReuseInputs :
           voxels' = i.voxels /\ shape' = i.shape /\ qmin' = i.qmin /\ qmax' = i.qmax
    /\ pc' = "greedy"
    /\ gres' = NoRun
    /\ UNCHANGED <<faces, overflow_checks, ubuf, gbuf, cur, sres, pre, geo, par, aoc, calls>>

ReuseNext ==
    \/ GreedyQuads
    \/ BeginFace
    \/ SweepCell
    \/ Recall

ReuseSpec == ReuseInit /\ [][ReuseNext]_vars

(***************************************************************************)
(* A caller of the geometry functions of one face on one quad.             *)
(***************************************************************************)
\* the faces, quads, flags and first vertex indices the caller passes
GeoFaces == {OrientedBlockFace(n_sign, permutation) :
                n_sign \in {0 - 1, 1}, permutation \in AxisPermutations}
GeoQuads == {[minimum |-> m, width |-> w, height |-> h] :
                m \in {<<0, 0, 0>>, <<1, 2, 3>>}, w \in 1 .. MaxQuad, h \in 1 .. MaxQuad}
GeoStarts == {0, 4}

GeoInit ==
    /\ faces = RIGHT_HANDED_Y_UP_CONFIG.faces
    /\ shape = GridShape
    /\ qmin = FullMin
    /\ qmax = FullMax
    /\ overflow_checks = FALSE
    /\ voxels = EmptyVoxels
    /\ ubuf = NewUnitQuadBuffer
    /\ gbuf = NewGreedyQuadsBuffer(ShapeSize(GridShape))
    /\ pc = "geometry"
    /\ cur = NoCursor
    /\ sres = NoRun
    /\ gres = NoRun
    /\ pre = [ubuf |-> ubuf, gbuf |-> gbuf]
    /\ par = NoPar
    /\ aoc = NoAoc
    /\ calls = 0
    /\ \E face \in GeoFaces, quad \in GeoQuads, u_flip_face \in 0 .. 2,
          flip_v \in BOOLEAN, start \in GeoStarts :
           geo = [step |-> "input", face |-> face, quad |-> quad,
                  u_flip_face |-> u_flip_face, flip_v |-> flip_v, start |-> start,
                  corners |-> << >>, indices |-> << >>, uvs |-> << >>]

\* a geometry call changes nothing but what it returns
GeoStep(g) ==
    /\ geo' = g
    /\ UNCHANGED <<voxels, shape, qmin, qmax, faces, overflow_checks, ubuf, gbuf, pc, cur,
                   sres, gres, pre, par, aoc, calls>>

\* the caller calls face.quad_corners(&quad)
QuadCorners ==
    /\ pc = "geometry"
    /\ geo.corners = << >>
    /\ GeoStep([geo EXCEPT !.corners = quad_corners(geo.face, geo.quad)])

\* the caller calls face.quad_mesh_indices(start)
QuadMeshIndices ==
    /\ pc = "geometry"
    /\ geo.indices = << >>
    /\ GeoStep([geo EXCEPT !.indices = quad_mesh_indices(geo.face, geo.start)])

\* the caller calls face.tex_coords(u_flip_face, flip_v, &quad)
TexCoords ==
    /\ pc = "geometry"
    /\ geo.uvs = << >>
    /\ GeoStep([geo EXCEPT !.uvs = tex_coords(geo.face, geo.u_flip_face, geo.flip_v,
                                              geo.quad)])

GeoNext ==
    \/ QuadCorners
    \/ QuadMeshIndices
    \/ TexCoords

GeoSpec == GeoInit /\ [][GeoNext]_vars

(***************************************************************************)
(* A caller that runs greedy_quads and then the six face sweeps of the     *)
(* same input side by side, each sweep with a visited bitmap of its own    *)
(* and all of them writing into one set of six groups; the sweeps take     *)
(* their steps in any order.                                               *)
(***************************************************************************)
\* the inputs of that caller: a solid cube in a 3x3x3 grid, and two parts of the
\* 4x4x3 grid whose interior is two cells, which differ in one and merge in the
\* other
ParInputs ==
    {[voxels |-> CubeVoxels(1), shape |-> CubeShape(1),
      qmin |-> FullMin, qmax |-> VSub(CubeShape(1), VSplat(1))],
     [voxels |-> [EmptyVoxels EXCEPT ![Linearize(GridShape, <<1, 1, 1>>) + 1] = "O1",
                                     ![Linearize(GridShape, <<1, 2, 1>>) + 1] = "O2"],
      shape |-> GridShape, qmin |-> FullMin, qmax |-> <<2, 3, 2>>],
     [voxels |-> [EmptyVoxels EXCEPT ![Linearize(GridShape, <<2, 1, 1>>) + 1] = "O1",
                                     ![Linearize(GridShape, <<2, 2, 1>>) + 1] = "O1",
                                     ![Linearize(GridShape, <<1, 1, 1>>) + 1] = "O2"],
      shape |-> GridShape, qmin |-> <<1, 0, 0>>, qmax |-> FullMax]}

ParInit ==
    /\ faces = RIGHT_HANDED_Y_UP_CONFIG.faces
    /\ \E i \in ParInputs :
           /\ voxels = i.voxels /\ shape = i.shape /\ qmin = i.qmin /\ qmax = i.qmax
           /\ gbuf = NewGreedyQuadsBuffer(Len(i.voxels))
    /\ overflow_checks \in BOOLEAN
    /\ ubuf = NewUnitQuadBuffer
    /\ pc = "greedy"
    /\ cur = NoCursor
    /\ sres = NoRun
    /\ gres = NoRun
    /\ pre = [ubuf |-> ubuf, gbuf |-> gbuf]
    /\ geo = NoGeo
    /\ par = NoPar
    /\ aoc = NoAoc
    /\ calls = 0

\* after greedy_quads has ended the caller sets up the six sweeps: empty groups,
\* one bitmap of voxels.len() entries per sweep
ParStart ==
    /\ pc = "done"
    /\ pc' = "parallel"
    /\ par' = [pc |-> [f \in FaceIds |-> "face"],
               cur |-> [f \in FaceIds |-> [NoCursor EXCEPT !.face = f]],
               st |-> [f \in FaceIds |-> "running"],
               visited |-> [f \in FaceIds |-> [i \in 1 .. Len(voxels) |-> FALSE]],
               groups |-> EmptyGroups]
    /\ UNCHANGED <<voxels, shape, qmin, qmax, faces, overflow_checks, ubuf, gbuf, cur, sres,
                   gres, pre, geo, aoc, calls>>

\* a buffer with the bitmap of the sweep of the first face, whatever f is
ParBufferOfFirst(f) == [groups |-> par.groups, visited |-> par.visited[1]]
\* the buffer the sweep of face f works on: the six groups and its own bitmap
ParBuffer(f) == [groups |-> par.groups, visited |-> par.visited[f]]

\* the sweep of face f has taken the step whose result is r
ParStep(f, r) ==
    /\ par' = [par EXCEPT
                  !.groups = r.gbuf.groups,
                  !.visited[f] = r.gbuf.visited,
                  !.pc[f] = IF r.pc = "cell" THEN "cell" ELSE "done",
                  !.cur[f] = IF r.pc = "cell" THEN r.cur ELSE NoCursor,
                  !.st[f] = IF r.pc = "cell" THEN "running"
                            ELSE IF r.gres.st = "running" THEN "ok"
                            ELSE r.gres.st]
    /\ UNCHANGED <<voxels, shape, qmin, qmax, faces, overflow_checks, ubuf, gbuf, pc, cur,
                   sres, gres, pre, geo, aoc, calls>>

\* the sweep of some face enters greedy_quads_for_face
ParBeginFace ==
    /\ pc = "parallel"
    /\ \E f \in FaceIds :
           /\ par.pc[f] = "face"
           /\ \E r \in {begin_face(shape, qmin, qmax, faces, f, ParBuffer(f), {},
                                   overflow_checks)} :
                  ParStep(f, r)

\* the sweep of some face handles the next cell of its slice
ParSweepCell ==
    /\ pc = "parallel"
    /\ \E f \in FaceIds :
           /\ par.pc[f] = "cell"
           /\ \E r \in {sweep_cell(voxels, shape, qmin, qmax, faces, par.cur[f], ParBuffer(f),
                                   {}, overflow_checks)} :
                  ParStep(f, r)

ParNext ==
    \/ GreedyQuads
    \/ BeginFace
    \/ SweepCell
    \/ ParStart
    \/ ParBeginFace
    \/ ParSweepCell

ParSpec == ParInit /\ [][ParNext]_vars

(***************************************************************************)
(* A caller that calls visible_block_faces several times on the same input *)
(* with the same UnitQuadBuffer, without a reset in between, and then      *)
(* greedy_quads.                                                           *)
(***************************************************************************)
\* the most calls of visible_block_faces the caller makes
MaxCalls == 3

\* the inputs of that caller: those of the side-by-side sweeps, an all-Empty
\* grid, and a region that assert_in_bounds rejects
RepeatInputs ==
    ParInputs \cup
    {[voxels |-> EmptyVoxels, shape |-> GridShape, qmin |-> FullMin, qmax |-> FullMax],
     [voxels |-> [EmptyVoxels EXCEPT ![Linearize(GridShape, <<1, 1, 1>>) + 1] = "O1"],
      shape |-> GridShape, qmin |-> FullMin, qmax |-> VAdd(FullMax, <<1, 0, 0>>)]}

RepeatInit ==
    /\ faces = RIGHT_HANDED_Y_UP_CONFIG.faces
    /\ \E i \in RepeatInputs :
           /\ voxels = i.voxels /\ shape = i.shape /\ qmin = i.qmin /\ qmax = i.qmax
           /\ gbuf \in {NewGreedyQuadsBuffer(Len(i.voxels)),
                         UsedGreedyQuadsBuffer(Len(i.voxels))}
    /\ ubuf \in {NewUnitQuadBuffer, UsedUnitQuadBuffer}
    /\ overflow_checks \in BOOLEAN
    /\ pc = "simple"
    /\ cur = NoCursor
    /\ sres = NoRun
    /\ gres = NoRun
    /\ pre = [ubuf |-> ubuf, gbuf |-> gbuf]
    /\ geo = NoGeo
    /\ par = NoPar
    /\ aoc = NoAoc
    /\ calls = 0

\* the caller calls visible_block_faces with the buffer as the last call left it
SimpleCall ==
    /\ pc = "simple"
    /\ calls < MaxCalls
    /\ sres.st \in {"none", "ok"}
    /\ \E r \in {visible_block_faces(voxels, shape, qmin, qmax, faces, ubuf, overflow_checks)} :
           /\ ubuf' = [ubuf EXCEPT !.groups = r.groups]
           /\ sres' = [st |-> r.st, why |-> r.why, reads |-> r.reads]
    /\ calls' = calls + 1
    /\ UNCHANGED <<voxels, shape, qmin, qmax, faces, overflow_checks, gbuf, pc, cur, gres, pre,
                   geo, par, aoc>>

\* after a call that returned, the caller goes on to greedy_quads
ThenGreedy ==
    /\ pc = "simple"
    /\ calls >= 1
    /\ sres.st = "ok"
    /\ pc' = "greedy"
    /\ UNCHANGED <<voxels, shape, qmin, qmax, faces, overflow_checks, ubuf, gbuf, cur, sres,
                   gres, pre, geo, par, aoc, calls>>

RepeatNext ==
    \/ SimpleCall
    \/ ThenGreedy
    \/ GreedyQuads
    \/ BeginFace
    \/ SweepCell

RepeatSpec == RepeatInit /\ [][RepeatNext]_vars

(***************************************************************************)
(* A caller of calculate_ao on the centre cell of a 3 x 3 x 3 grid, for    *)
(* one face and any 8 cells around the facing neighbour.                   *)
(***************************************************************************)
AoShape == <<3, 3, 3>>
AoCentre == <<1, 1, 1>>
\* the places of the 8 cells around a cell in a plane, as offsets along two axes
PlaneOffsets == ({-1, 0, 1} \X {-1, 0, 1}) \ {<<0, 0>>}
\* the two axes (1, 2, 3) of the plane of a face whose normal axis is a (0, 1, 2),
\* in the order in which calculate_ao goes round the cell
PlaneAxes(a) == IF a = 0 THEN <<2, 3>> ELSE IF a = 1 THEN <<1, 3>> ELSE <<2, 1>>
\* the grid whose centre is Opaque and whose cells around the neighbour nb of the
\* centre, in the plane across normal axis a, are the values ring gives them
AoVoxels(a, nb, ring) ==
    [i \in 1 .. ShapeSize(AoShape) |->
        IF Delinearize(AoShape, i - 1) = AoCentre THEN "O1"
        ELSE IF /\ Delinearize(AoShape, i - 1)[a + 1] = nb[a + 1]
                /\ Delinearize(AoShape, i - 1) # nb
            THEN ring[<<Delinearize(AoShape, i - 1)[PlaneAxes(a)[1]] - nb[PlaneAxes(a)[1]],
                        Delinearize(AoShape, i - 1)[PlaneAxes(a)[2]] - nb[PlaneAxes(a)[2]]>>]
        ELSE "E0"]

AoInit ==
    /\ faces = RIGHT_HANDED_Y_UP_CONFIG.faces
    /\ shape = AoShape
    /\ qmin = FullMin
    /\ qmax = VSub(AoShape, VSplat(1))
    /\ overflow_checks \in BOOLEAN
    /\ \E f \in FaceIds :
           /\ aoc = [face |-> f, stride |-> Linearize(AoShape, AoCentre), result |-> << >>]
           /\ \E ring \in [PlaneOffsets -> {"E0", "O1"}] \cup [PlaneOffsets -> {"T1", "O1"}] :
                  voxels = AoVoxels(axes(faces[f].permutation)[1],
                                    VAdd(AoCentre, signed_normal(faces[f])), ring)
    /\ ubuf = NewUnitQuadBuffer
    /\ gbuf = NewGreedyQuadsBuffer(ShapeSize(AoShape))
    /\ pc = "ao"
    /\ cur = NoCursor
    /\ sres = NoRun
    /\ gres = NoRun
    /\ pre = [ubuf |-> ubuf, gbuf |-> gbuf]
    /\ geo = NoGeo
    /\ par = NoPar
    /\ calls = 0

\* the caller calls calculate_ao for the face of the centre cell, as get_row_width does
CalculateAo ==
    /\ pc = "ao"
    /\ aoc.result = << >>
    /\ aoc' = [aoc EXCEPT !.result =
                  calculate_ao(voxels, shape,
                               FaceStrides(shape, faces[aoc.face]).visibility_offset,
                               aoc.stride,
                               get_face_index(shape,
                                              FaceStrides(shape, faces[aoc.face]).visibility_offset,
                                              aoc.stride),
                               overflow_checks)]
    /\ UNCHANGED <<voxels, shape, qmin, qmax, faces, overflow_checks, ubuf, gbuf, pc, cur,
                   sres, gres, pre, geo, par, calls>>

AoNext == CalculateAo

AoSpec == AoInit /\ [][AoNext]_vars

(***************************************************************************)
(* Properties.  The reads of a call are the buffer indices it has used so  *)
(* far (sres.reads, gres.reads); a call that ends "ub" has made an         *)
(* unchecked read outside the buffer, after which any outcome is possible. *)
(***************************************************************************)
\* the ways assert_in_bounds fails
ValidationPanics == {"BufferTooSmall", "InvalidShape", "Overflow", "InvalidExtent", "OutOfBounds"}
\* visible_block_faces has ended; greedy_quads has ended
SimpleEnded == pc # "simple"
GreedyEnded == pc = "done"
GreedyEntered == pc \notin {"simple", "greedy"}
\* the call failed its precondition check
SimpleRejected == sres.st = "panic" /\ sres.why \in ValidationPanics
GreedyRejected == pc = "done" /\ gres.st = "panic" /\ gres.why \in ValidationPanics
\* the caller's input passes assert_in_bounds
Accepted == assert_in_bounds(Len(voxels), shape, qmin, qmax, overflow_checks) = "ok"
\* the caller's input is as the documentation asks: a buffer that holds the shape,
\* and min <= max < shape on every axis
WellFormed ==
    /\ ShapeSize(shape) <= Len(voxels)
    /\ \A i \in 1 .. 3 : shape[i] >= 1 /\ ULe(qmin[i], qmax[i]) /\ ULt(qmax[i], shape[i])
\* both calls were given empty quad groups
FreshBuffers == pre.ubuf = NewUnitQuadBuffer /\ pre.gbuf.groups = EmptyGroups

\* the cells of the shape, the closed region [min, max] and its interior
GridCells ==
    {<<x, y, z>> : x \in 0 .. shape[1] - 1, y \in 0 .. shape[2] - 1, z \in 0 .. shape[3] - 1}
InRegion(p) == \A i \in 1 .. 3 : ULe(qmin[i], p[i]) /\ ULe(p[i], qmax[i])
InRegionInterior(p) == \A i \in 1 .. 3 : ULt(qmin[i], p[i]) /\ ULt(p[i], qmax[i])
\* index i is the linear index of a cell of [min, max]
IndexInRegion(i) == InBuf(ShapeSize(shape), i) /\ InRegion(Delinearize(shape, i))
VisibilityOfCell(p) == get_visibility(voxels[Linearize(shape, p) + 1])
\* the cell adjacent to p along the signed normal of faces[f]
Across(p, f) == VAdd(p, signed_normal(faces[f]))

\* the cells a greedy quad of group f covers, and the cells the groups cover
QuadCells(f, q) ==
    {<<q.minimum[1] + i * faces[f].u[1] + j * faces[f].v[1],
       q.minimum[2] + i * faces[f].u[2] + j * faces[f].v[2],
       q.minimum[3] + i * faces[f].u[3] + j * faces[f].v[3]>> :
        i \in 0 .. q.width - 1, j \in 0 .. q.height - 1}
GreedyCover(f) == UNION {QuadCells(f, gbuf.groups[f][k]) : k \in 1 .. Len(gbuf.groups[f])}
SimpleCover(f) == {ubuf.groups[f][k].minimum : k \in 1 .. Len(ubuf.groups[f])}
RECURSIVE SumArea(_)
SumArea(quads) ==
    IF quads = << >> THEN 0
    ELSE Head(quads).width * Head(quads).height + SumArea(Tail(quads))

\* C1: on every input assert_in_bounds accepts, both calls return and for each
\* face f the cells the quads of greedy_quads' group f cover are the minimum
\* cells of the unit quads of visible_block_faces' group f.
C1_CoverageEquivalence ==
    (GreedyEnded /\ Accepted /\ FreshBuffers) =>
        /\ sres.st = "ok"
        /\ gres.st = "ok"
        /\ \A f \in FaceIds : GreedyCover(f) = SimpleCover(f)

\* C2: on every input assert_in_bounds accepts, both calls return and for each
\* face f the sum of width * height over greedy_quads' group f is the number of
\* unit quads in visible_block_faces' group f.
C2_AreaConservation ==
    (GreedyEnded /\ Accepted /\ FreshBuffers) =>
        /\ sres.st = "ok"
        /\ gres.st = "ok"
        /\ \A f \in FaceIds : SumArea(gbuf.groups[f]) = Len(ubuf.groups[f])

\* C3: whenever max[i] is not smaller than the shape's dimension on some axis i,
\* both calls fail the precondition check.
C3_MaxOutOfRangeRejected ==
    (\E i \in 1 .. 3 : ~ULt(qmax[i], shape[i])) =>
        /\ SimpleEnded => SimpleRejected
        /\ GreedyEntered => GreedyRejected

\* C4: whenever min[i] >= max[i] on some axis i, both calls fail the precondition
\* check.
C4_MinNotBelowMaxRejected ==
    (\E i \in 1 .. 3 : ~ULt(qmin[i], qmax[i])) =>
        /\ SimpleEnded => SimpleRejected
        /\ GreedyEntered => GreedyRejected

\* C5: whenever the shape's element count exceeds voxels.len(), both calls fail in
\* assert_in_bounds on the buffer-size check, whatever else is wrong with the
\* input, and have read no voxel.
C5_BufferTooSmallFirst ==
    (ShapeSize(shape) > Len(voxels)) =>
        /\ SimpleEnded =>
               sres = [st |-> "panic", why |-> "BufferTooSmall", reads |-> {}]
        /\ GreedyEntered =>
               pc = "done" /\ gres = [st |-> "panic", why |-> "BufferTooSmall", reads |-> {}]

\* both calls have failed on the buffer size although the region is invalid too
C5_Witness ==
    /\ pc = "done"
    /\ ShapeSize(shape) > Len(voxels)
    /\ \E i \in 1 .. 3 : ~ULt(qmax[i], shape[i])
    /\ sres.why = "BufferTooSmall"
    /\ gres.why = "BufferTooSmall"

\* C6: a call that fails the precondition check leaves the output buffer as it was
\* (the six groups and, for greedy_quads, the visited bitmap), and a call either
\* fails this way or runs to completion.
C6_AbortBeforeMutation ==
    /\ SimpleEnded =>
           /\ SimpleRejected => ubuf = pre.ubuf
           /\ SimpleRejected \/ sres.st = "ok"
    /\ GreedyEnded =>
           /\ GreedyRejected => gbuf = pre.gbuf
           /\ GreedyRejected \/ gres.st = "ok"

\* C7: on every input assert_in_bounds accepts, every index either call uses for
\* the voxels or the visited bitmap is the linear index of a cell of [min, max],
\* smaller than the shape's size and the buffer's length.
C7_MemorySafety ==
    Accepted =>
        /\ sres.st # "ub"
        /\ gres.st # "ub"
        /\ \A i \in sres.reads \cup gres.reads :
               InBuf(Len(voxels), i) /\ IndexInRegion(i)

C9_SimpleVisibilityRule ==
    (SimpleEnded /\ WellFormed /\ pre.ubuf = NewUnitQuadBuffer) =>
        \A f \in FaceIds : \A p \in GridCells \cup SimpleCover(f) :
            Cardinality({k \in 1 .. Len(ubuf.groups[f]) : ubuf.groups[f][k].minimum = p})
                = IF /\ p \in GridCells
                     /\ InRegionInterior(p)
                     /\ VisibilityOfCell(p) # "Empty"
                     /\ \/ VisibilityOfCell(Across(p, f)) = "Empty"
                        \/ /\ VisibilityOfCell(Across(p, f)) = "Translucent"
                           /\ VisibilityOfCell(p) = "Opaque"
                  THEN 1 ELSE 0

\* visible_block_faces has returned with a quad for an Opaque cell that faces a
\* Translucent one, and none for that Translucent cell's face towards it
C9_Witness ==
    /\ SimpleEnded
    /\ WellFormed
    /\ pre.ubuf = NewUnitQuadBuffer
    /\ sres.st = "ok"
    /\ \E f \in FaceIds : \E p \in SimpleCover(f) :
           /\ VisibilityOfCell(p) = "Opaque"
           /\ VisibilityOfCell(Across(p, f)) = "Translucent"
    /\ \E f \in FaceIds : \E p \in GridCells :
           /\ InRegionInterior(p)
           /\ VisibilityOfCell(p) = "Translucent"
           /\ VisibilityOfCell(Across(p, f)) = "Opaque"
           /\ p \notin SimpleCover(f)

\* C10: on a well-formed input and empty buffers, in both algorithms no quad of
\* group f covers a Translucent interior cell whose neighbour across faces[f] is
\* Translucent, while a Translucent cell facing an Empty neighbour and an Opaque
\* cell facing a Translucent neighbour are covered.
C10_TranslucentFaces ==
    (GreedyEnded /\ WellFormed /\ FreshBuffers) =>
        /\ sres.st # "ub"
        /\ gres.st # "ub"
        /\ \A f \in FaceIds : \A p \in {c \in GridCells : InRegionInterior(c)} :
               /\ (VisibilityOfCell(p) = "Translucent"
                      /\ VisibilityOfCell(Across(p, f)) = "Translucent")
                   => (p \notin SimpleCover(f) /\ p \notin GreedyCover(f))
               /\ (\/ /\ VisibilityOfCell(p) = "Translucent"
                      /\ VisibilityOfCell(Across(p, f)) = "Empty"
                   \/ /\ VisibilityOfCell(p) = "Opaque"
                      /\ VisibilityOfCell(Across(p, f)) = "Translucent")
                   => (p \in SimpleCover(f) /\ p \in GreedyCover(f))

\* every voxel of the buffer is Empty
AllEmpty == \A i \in DOMAIN voxels : get_visibility(voxels[i]) = "Empty"

\* C11 as the specification states it: for an all-Empty buffer and an accepted
\* region, after either call returns all six groups of its output buffer hold
\* zero quads.
C11_EmptyInputNoQuads ==
    (AllEmpty /\ Accepted) =>
        /\ (SimpleEnded /\ sres.st = "ok") => ubuf.groups = EmptyGroups
        /\ (GreedyEnded /\ gres.st = "ok") => gbuf.groups = EmptyGroups

\* C11, amended: for an all-Empty buffer and an accepted region,
\* visible_block_faces returns without adding a quad to any group (the groups
\* hold zero quads when the buffer was empty before the call), and after
\* greedy_quads returns all six groups hold zero quads.
C11_EmptyInputAddsNoQuads ==
    (AllEmpty /\ Accepted) =>
        /\ (SimpleEnded /\ sres.st = "ok") => ubuf.groups = pre.ubuf.groups
        /\ (GreedyEnded /\ gres.st = "ok") => gbuf.groups = EmptyGroups

\* both calls have returned from an all-Empty grid they have read, into buffers
\* that held quads of an earlier call
C11_Witness ==
    /\ pc = "done"
    /\ AllEmpty
    /\ Accepted
    /\ sres.st = "ok" /\ sres.reads # {}
    /\ gres.st = "ok" /\ gres.reads # {}
    /\ pre.ubuf = UsedUnitQuadBuffer
    /\ ubuf.groups # EmptyGroups
    /\ pre.gbuf.groups # EmptyGroups
    /\ gbuf.groups = EmptyGroups

\* the caller meshes the whole grid of a solid cube of edge k into fresh buffers
SolidCube(k) ==
    /\ shape = CubeShape(k)
    /\ voxels = CubeVoxels(k)
    /\ qmin = FullMin
    /\ qmax = VSub(shape, VSplat(1))
    /\ faces = RIGHT_HANDED_Y_UP_CONFIG.faces
    /\ FreshBuffers

\* C12: a solid cube of edge k, meshed over its whole (k+2)^3 grid, yields one
\* greedy quad of width k and height k in each of the six groups, and k * k unit
\* quads in each group of visible_block_faces (6 * k * k in all).
C12_SolidCube ==
    \A k \in 1 .. MaxCube :
        (SolidCube(k) /\ GreedyEnded) =>
            /\ sres.st = "ok"
            /\ gres.st = "ok"
            /\ \A f \in FaceIds :
                   /\ Len(gbuf.groups[f]) = 1
                   /\ gbuf.groups[f][1].width = k
                   /\ gbuf.groups[f][1].height = k
                   /\ Len(ubuf.groups[f]) = k * k

\* the quads the running or ended greedy_quads call has emitted into group f
Emitted(f) == IF GreedyEntered /\ ~GreedyRejected THEN gbuf.groups[f] ELSE << >>
\* the voxel of cell p, and the voxel facing it across faces[f]
VoxelOfCell(p) == VoxelAt(voxels, Linearize(shape, p))
FacingVoxel(p, f) == VoxelAt(voxels, Linearize(shape, Across(p, f)))
\* quad q of group f covers two cells or more
Merged(q) == q.width * q.height >= 2

\* C13: every cell covered by a quad greedy_quads has emitted is a cell of the
\* buffer and has the merge_value of the quad's minimum cell.
C13_MaterialPartitioning ==
    \A f \in FaceIds : \A k \in 1 .. Len(Emitted(f)) :
        \A p \in QuadCells(f, Emitted(f)[k]) :
            /\ InBuf(Len(voxels), Linearize(shape, p))
            /\ merge_value(VoxelOfCell(p)) = merge_value(VoxelOfCell(Emitted(f)[k].minimum))

\* greedy_quads has returned a group with a quad of two cells or more and a
\* quad whose minimum cell has another merge value
C13_Witness ==
    /\ pc = "done"
    /\ gres.st = "ok"
    /\ \E f \in FaceIds : \E k1, k2 \in 1 .. Len(Emitted(f)) :
           /\ Merged(Emitted(f)[k1])
           /\ merge_value(VoxelOfCell(Emitted(f)[k1].minimum))
                  # merge_value(VoxelOfCell(Emitted(f)[k2].minimum))

\* C19: for every quad greedy_quads has emitted on face f, the neighbours across
\* faces[f] of all the cells the quad covers have the
\* merge_value_facing_neighbour of the neighbour of the quad's minimum cell.
C19_FacingNeighbourPartitioning ==
    \A f \in FaceIds : \A k \in 1 .. Len(Emitted(f)) :
        \A p \in QuadCells(f, Emitted(f)[k]) :
            /\ InBuf(Len(voxels), Linearize(shape, Across(p, f)))
            /\ merge_value_facing_neighbour(FacingVoxel(p, f))
                   = merge_value_facing_neighbour(FacingVoxel(Emitted(f)[k].minimum, f))

\* greedy_quads has returned a group with a quad of two cells or more and a
\* quad whose minimum cell faces a neighbour of another facing value
C19_Witness ==
    /\ pc = "done"
    /\ gres.st = "ok"
    /\ \E f \in FaceIds : \E k1, k2 \in 1 .. Len(Emitted(f)) :
           /\ Merged(Emitted(f)[k1])
           /\ merge_value_facing_neighbour(FacingVoxel(Emitted(f)[k1].minimum, f))
                  # merge_value_facing_neighbour(FacingVoxel(Emitted(f)[k2].minimum, f))

\* the 4-corner ambient-occlusion pattern of face f of cell p
AoOfCell(p, f) ==
    calculate_ao(voxels, shape, FaceStrides(shape, faces[f]).visibility_offset,
                 Linearize(shape, p),
                 get_face_index(shape, FaceStrides(shape, faces[f]).visibility_offset,
                                Linearize(shape, p)),
                 FALSE).ao

\* C20: every cell covered by a quad greedy_quads has emitted on face f has the
\* ambient-occlusion pattern of the quad's minimum cell, the cells of the rows
\* added during height growth included.
C20_AoPartitioning ==
    \A f \in FaceIds : \A k \in 1 .. Len(Emitted(f)) :
        \A p \in QuadCells(f, Emitted(f)[k]) :
            AoOfCell(p, f) = AoOfCell(Emitted(f)[k].minimum, f)

\* C20 for the first row of each quad only
C20_AoPartitioningFirstRow ==
    \A f \in FaceIds : \A k \in 1 .. Len(Emitted(f)) :
        \A p \in QuadCells(f, [Emitted(f)[k] EXCEPT !.height = 1]) :
            AoOfCell(p, f) = AoOfCell(Emitted(f)[k].minimum, f)

\* C14: whatever calls the GreedyQuadsBuffer has been through, when a call that
\* passed validation ends, the six groups hold what the same call produces on a
\* fresh buffer, and the call ends the same way.
C14_BufferReuse ==
    (GreedyEnded /\ ~GreedyRejected) =>
        \E fresh \in {greedy_quads(voxels, shape, qmin, qmax, faces,
                                   NewGreedyQuadsBuffer(Len(voxels)), overflow_checks)} :
            /\ gbuf.groups = fresh.gbuf.groups
            /\ gres.st = fresh.gres.st

\* a call has returned quads into a buffer that came with quads and visited
\* bits of an earlier call on a chunk of another size
C14_Witness ==
    /\ pc = "done"
    /\ gres.st = "ok"
    /\ pre.gbuf.groups # EmptyGroups
    /\ \E i \in DOMAIN pre.gbuf.visited : pre.gbuf.visited[i]
    /\ Len(pre.gbuf.visited) # Len(voxels)
    /\ gbuf.groups # EmptyGroups
    /\ gbuf.groups # pre.gbuf.groups

\* the same, into a buffer of the same size, whose visited bitmap is kept
C14_WitnessSameSize ==
    /\ pc = "done"
    /\ gres.st = "ok"
    /\ pre.gbuf.groups # EmptyGroups
    /\ \E i \in DOMAIN pre.gbuf.visited : pre.gbuf.visited[i]
    /\ Len(pre.gbuf.visited) = Len(voxels)
    /\ gbuf.groups # EmptyGroups
    /\ gbuf.groups # pre.gbuf.groups

\* the unit vectors of the first, second and third axis of the face's permutation
NormalOf(face) == get_unit_vector(axes(face.permutation)[1])
UOf(face) == get_unit_vector(axes(face.permutation)[2])
VOf(face) == get_unit_vector(axes(face.permutation)[3])
\* geometry results are at hand
HasCorners == pc = "geometry" /\ geo.corners # << >>
HasIndices == pc = "geometry" /\ geo.indices # << >>
HasUvs == pc = "geometry" /\ geo.uvs # << >>

\* C15: quad_corners returns [c, c + width*U, c + height*V, c + width*U + height*V]
\* in that order, where c = minimum + N when n_sign > 0 and c = minimum otherwise.
C15_QuadCorners ==
    HasCorners =>
        \E c \in {IF geo.face.n_sign > 0 THEN VAdd(geo.quad.minimum, NormalOf(geo.face))
                   ELSE geo.quad.minimum} :
            geo.corners =
                <<c,
                  [i \in 1 .. 3 |-> c[i] + geo.quad.width * UOf(geo.face)[i]],
                  [i \in 1 .. 3 |-> c[i] + geo.quad.height * VOf(geo.face)[i]],
                  [i \in 1 .. 3 |-> c[i] + geo.quad.width * UOf(geo.face)[i]
                                          + geo.quad.height * VOf(geo.face)[i]]>>

\* quad_corners has returned for a face of positive normal and a quad that is
\* wider than high, away from the origin
C15_Witness ==
    /\ HasCorners
    /\ geo.face.n_sign > 0
    /\ geo.quad.minimum = <<1, 2, 3>>
    /\ geo.quad.width > geo.quad.height
    /\ geo.corners[1] # geo.quad.minimum

\* the cross product of two vectors, and the right-hand-rule normal of the
\* triangle whose vertices are the corners named by the indices i, j, k
Cross(a, b) ==
    <<a[2] * b[3] - a[3] * b[2], a[3] * b[1] - a[1] * b[3], a[1] * b[2] - a[2] * b[1]>>
TriangleNormal(i, j, k) ==
    Cross(VSub(geo.corners[j - geo.start + 1], geo.corners[i - geo.start + 1]),
          VSub(geo.corners[k - geo.start + 1], geo.corners[i - geo.start + 1]))
PositiveMultiple(a, b) ==
    \E m \in 1 .. MaxQuad * MaxQuad : a = VScale(b, m)

\* C16: for each normal sign and permutation and every quad, both triangles of
\* quad_mesh_indices over the quad_corners vertices have a right-hand-rule
\* normal that is a positive multiple of the face's signed normal, and the two
\* triangles use all four corners.
C16_OutwardWinding ==
    (HasCorners /\ HasIndices) =>
        /\ Len(geo.indices) = 6
        /\ PositiveMultiple(TriangleNormal(geo.indices[1], geo.indices[2], geo.indices[3]),
                            signed_normal(geo.face))
        /\ PositiveMultiple(TriangleNormal(geo.indices[4], geo.indices[5], geo.indices[6]),
                            signed_normal(geo.face))
        /\ {geo.indices[i] : i \in 1 .. 6} = geo.start .. geo.start + 3

\* corners and indices are at hand for a face of negative normal and odd
\* permutation, a quad of two cells and a first index that is not 0
C16_Witness ==
    /\ HasCorners
    /\ HasIndices
    /\ geo.face.n_sign < 0
    /\ sign(geo.face.permutation) < 0
    /\ geo.quad.width * geo.quad.height = 2
    /\ geo.start = 4

\* flip_u as C17 states it
FlipU == IF geo.face.n_sign > 0 THEN geo.u_flip_face = axes(geo.face.permutation)[1]
         ELSE geo.u_flip_face # axes(geo.face.permutation)[1]
\* the UVs of the four corners without any flip, in quad_corners order
PlainUvs ==
    << <<0, 0>>, <<geo.quad.width, 0>>, <<0, geo.quad.height>>,
       <<geo.quad.width, geo.quad.height>> >>

\* C17: in quad_corners order the UVs are (0,0), (width,0), (0,height),
\* (width,height), with every U replaced by width-U exactly when flip_u holds and
\* every V replaced by height-V exactly when flip_v is passed.
C17_TexCoords ==
    HasUvs =>
        geo.uvs = [i \in 1 .. 4 |->
                      <<IF FlipU THEN geo.quad.width - PlainUvs[i][1] ELSE PlainUvs[i][1],
                        IF geo.flip_v THEN geo.quad.height - PlainUvs[i][2]
                        ELSE PlainUvs[i][2]>>]

\* tex_coords has returned flipped Us for a face of negative normal whose normal
\* axis is not u_flip_face, for a quad that is not square
C17_Witness ==
    /\ HasUvs
    /\ geo.face.n_sign < 0
    /\ geo.u_flip_face # axes(geo.face.permutation)[1]
    /\ geo.quad.width # geo.quad.height
    /\ geo.uvs[1][1] = geo.quad.width
    /\ geo.flip_v

\* C18: the faces array of RIGHT_HANDED_Y_UP_CONFIG, which the caller passes,
\* has the signed normals -X, -Y, -Z, +X, +Y, +Z in that order (pairwise
\* distinct), Y is the V axis of every face whose normal is not Y, the two
\* Y-normal faces use the Yzx permutation, and u_flip_face is X, not the up axis.
C18_RightHandedYUp ==
    /\ faces = RIGHT_HANDED_Y_UP_CONFIG.faces
    /\ Len(faces) = 6
    /\ [f \in FaceIds |-> signed_normal(faces[f])]
           = << <<0 - 1, 0, 0>>, <<0, 0 - 1, 0>>, <<0, 0, 0 - 1>>,
                <<1, 0, 0>>, <<0, 1, 0>>, <<0, 0, 1>> >>
    /\ \A f, g \in FaceIds : f # g => signed_normal(faces[f]) # signed_normal(faces[g])
    /\ \A f \in FaceIds :
           IF axes(faces[f].permutation)[1] = 1
               THEN faces[f].permutation = "Yzx"
           ELSE axes(faces[f].permutation)[3] = 1 /\ faces[f].v = <<0, 1, 0>>
    /\ RIGHT_HANDED_Y_UP_CONFIG.u_flip_face = 0
    /\ RIGHT_HANDED_Y_UP_CONFIG.u_flip_face # 1

\* both algorithms have meshed a solid cube with the six faces and have put a
\* quad into each group
C18_Witness ==
    /\ pc = "done"
    /\ sres.st = "ok"
    /\ gres.st = "ok"
    /\ faces = RIGHT_HANDED_Y_UP_CONFIG.faces
    /\ \A f \in FaceIds : gbuf.groups[f] # << >> /\ ubuf.groups[f] # << >>

\* the room from cell p to the upper bound of the interior along axis a (0, 1, 2)
RoomAlong(p, a) == least_upper_bound(Interior(qmin, qmax))[a + 1] - p[a + 1]
\* cell p is a cell of the interior extent greedy_quads computes: on every axis
\* its offset from the extent's minimum is, as a u32, below the extent's shape
InInterior(p) ==
    \A i \in 1 .. 3 :
        ULt(p[i] - Interior(qmin, qmax).minimum[i], Interior(qmin, qmax).shape[i])
\* max_width and max_height of find_quad for the quad q of group f
MaxWidthOf(f, q) == RoomAlong(q.minimum, axes(faces[f].permutation)[2])
MaxHeightOf(f, q) == RoomAlong(q.minimum, axes(faces[f].permutation)[3])

CellOf(f, q, i, j) ==
    [a \in 1 .. 3 |-> q.minimum[a] + i * faces[f].u[a] + j * faces[f].v[a]]

\* cell p can join quad q of face f when the visited bitmap is `visited`: it is
\* not visited, its face is visible, and it has the merge value and the
\* facing-neighbour value of the quad's minimum and the AO pattern of cell aoref
CellJoins(f, p, visited, q, aoref) ==
    /\ InBuf(Len(voxels), Linearize(shape, p))
    /\ InBuf(Len(voxels), Linearize(shape, Across(p, f)))
    /\ face_needs_mesh(VoxelOfCell(p), Linearize(shape, p),
                       FaceStrides(shape, faces[f]).visibility_offset, voxels, visited).val
    /\ merge_value(VoxelOfCell(p)) = merge_value(VoxelOfCell(q.minimum))
    /\ merge_value_facing_neighbour(FacingVoxel(p, f))
           = merge_value_facing_neighbour(FacingVoxel(q.minimum, f))
    /\ AoOfCell(p, f) = AoOfCell(aoref, f)

\* this step of the sweep emits a quad; the quad it emits
QuadEmitted ==
    /\ pc = "cell"
    /\ Len(gbuf'.groups[cur.face]) = Len(gbuf.groups[cur.face]) + 1
NewQuad == gbuf'.groups[cur.face][Len(gbuf'.groups[cur.face])]

\* the width of q cannot grow by a cell in its first row; with that width the
\* height cannot grow by a row
WidthMaximal(f, q, visited) ==
    \/ q.width = MaxWidthOf(f, q)
    \/ ~CellJoins(f, CellOf(f, q, q.width, 0), visited, q, q.minimum)
HeightMaximal(f, q, visited) ==
    \/ q.height = MaxHeightOf(f, q)
    \/ \E i \in 0 .. q.width - 1 :
           ~CellJoins(f, CellOf(f, q, i, q.height), visited, q, q.minimum)
\* no row of q fails: every cell of q can join it
NoFailingRow(f, q, visited) ==
    \A j \in 0 .. q.height - 1 : \A i \in 0 .. q.width - 1 :
        CellJoins(f, CellOf(f, q, i, j), visited, q, q.minimum)
\* the same with the AO pattern of each cell compared with the first cell of its row
NoFailingRowByRowStart(f, q, visited) ==
    \A j \in 0 .. q.height - 1 : \A i \in 0 .. q.width - 1 :
        CellJoins(f, CellOf(f, q, i, j), visited, q, CellOf(f, q, 0, j))

\* C22: when a quad is emitted, with the visited bitmap of that moment, its
\* width cannot be extended by one cell in its first row, its height cannot be
\* extended by one row, and growth has stopped at the first failing row: no row
\* of the quad holds a cell that is visited, has no visible face, or differs
\* from the quad's minimum in merge value, facing-neighbour value or AO.
C22_GreedyMaximality ==
    [][QuadEmitted =>
          /\ WidthMaximal(cur.face, NewQuad, gbuf.visited)
          /\ HeightMaximal(cur.face, NewQuad, gbuf.visited)
          /\ NoFailingRow(cur.face, NewQuad, gbuf.visited)]_vars

\* C22 without its last part: an emitted quad cannot be extended
C22_CannotExtend ==
    [][QuadEmitted =>
          /\ WidthMaximal(cur.face, NewQuad, gbuf.visited)
          /\ HeightMaximal(cur.face, NewQuad, gbuf.visited)]_vars

\* C22 with the AO pattern of a cell compared with the first cell of its row
C22_MaximalityByRowStart ==
    [][QuadEmitted =>
          /\ WidthMaximal(cur.face, NewQuad, gbuf.visited)
          /\ HeightMaximal(cur.face, NewQuad, gbuf.visited)
          /\ NoFailingRowByRowStart(cur.face, NewQuad, gbuf.visited)]_vars

\* this step is the reset inside greedy_quads (validation has passed); this step
\* is the head of a face sweep
ResetStep == pc = "greedy" /\ pc' = "face"
SweepStart == pc = "face"
NoneVisited(buffer) == \A i \in DOMAIN buffer.visited : ~buffer.visited[i]

\* C23: the reset inside greedy_quads empties the six groups and leaves a bitmap
\* of voxels.len() entries, which is the bitmap the buffer came with (its bits
\* included) when that had voxels.len() entries already and a new all-false one
\* otherwise; at the start of each face sweep every visited entry is false.
C23_VisitedLifecycle ==
    [][/\ ResetStep =>
              /\ gbuf'.groups = EmptyGroups
              /\ Len(gbuf'.visited) = Len(voxels)
              /\ IF Len(gbuf.visited) = Len(voxels) THEN gbuf'.visited = gbuf.visited
                  ELSE NoneVisited(gbuf')
       /\ SweepStart =>
              /\ Len(gbuf'.visited) = Len(voxels)
              /\ NoneVisited(gbuf')]_vars

\* the sweep of the last face starts with an all-false bitmap of voxels.len()
\* entries, in a call whose buffer came with visited bits set and the same
\* length, after a sweep of this call that emitted a quad
C23_Witness ==
    /\ pc = "cell"
    /\ cur.face = 6
    /\ cur.k = 1
    /\ cur.slice_min = Interior(qmin, qmax).minimum
    /\ gbuf.groups[5] # << >>
    /\ NoneVisited(gbuf)
    /\ Len(pre.gbuf.visited) = Len(voxels)
    /\ ~NoneVisited(pre.gbuf)

\* the same in a call whose buffer came with another length
C23_WitnessResized ==
    /\ pc = "cell"
    /\ cur.face = 6
    /\ cur.k = 1
    /\ gbuf.groups[5] # << >>
    /\ NoneVisited(gbuf)
    /\ Len(pre.gbuf.visited) # Len(voxels)
    /\ ~NoneVisited(pre.gbuf)

\* the coordinate of cell p along the normal axis of faces[f]
NormalCoord(f, p) == p[axes(faces[f].permutation)[1] + 1]
\* cell p comes before cell r in iter3's raster order of a slice: z, then y, then
\* x decides
RasterBefore(p, r) ==
    \/ p[3] < r[3]
    \/ p[3] = r[3] /\ p[2] < r[2]
    \/ p[3] = r[3] /\ p[2] = r[2] /\ p[1] < r[1]
\* the sweep of face f comes to cell p before cell r
SweptBefore(f, p, r) ==
    \/ NormalCoord(f, p) < NormalCoord(f, r)
    \/ NormalCoord(f, p) = NormalCoord(f, r) /\ RasterBefore(p, r)

\* C24: in each group of greedy_quads the quads stand in sweep order: of two
\* quads the earlier has its minimum in a slice of smaller normal coordinate, or
\* in the same slice and earlier in raster order; and the minimum of each quad is
\* the raster-first of the cells it covers.
C24_DiscoveryOrder ==
    \A f \in FaceIds :
        /\ \A k1, k2 \in 1 .. Len(Emitted(f)) :
               k1 < k2 => SweptBefore(f, Emitted(f)[k1].minimum, Emitted(f)[k2].minimum)
        /\ \A k \in 1 .. Len(Emitted(f)) :
               \A p \in QuadCells(f, Emitted(f)[k]) \ {Emitted(f)[k].minimum} :
                   RasterBefore(Emitted(f)[k].minimum, p)

\* greedy_quads has returned a group with two quads in one slice, a group with
\* quads in two slices, and a quad of two cells or more
C24_Witness ==
    /\ pc = "done"
    /\ gres.st = "ok"
    /\ \E f \in FaceIds : \E k \in 1 .. Len(Emitted(f)) - 1 :
           NormalCoord(f, Emitted(f)[k].minimum) = NormalCoord(f, Emitted(f)[k + 1].minimum)
    /\ \E f \in FaceIds : \E k \in 1 .. Len(Emitted(f)) - 1 :
           NormalCoord(f, Emitted(f)[k].minimum) < NormalCoord(f, Emitted(f)[k + 1].minimum)
    /\ \E f \in FaceIds : \E k \in 1 .. Len(Emitted(f)) : Merged(Emitted(f)[k])

\* greedy_quads has ended in a panic inside find_quad
FindQuadPanicked == pc = "done" /\ gres.st = "panic" /\ gres.why = "FindQuadPanic"

\* C25: for a face of negative normal visibility_offset is the u32 that added to
\* n_stride gives 0 modulo 2^32, and no call ends in a trap of the offset
\* arithmetic of find_quad, get_row_width, get_face_index or calculate_ao.
C25_WrapAroundOffsets ==
    /\ \A f \in FaceIds :
           faces[f].n_sign < 0 =>
               FaceStrides(shape, faces[f]).visibility_offset
                   + FaceStrides(shape, faces[f]).n_stride = 0
    /\ ~FindQuadPanicked

\* C25 for the build without overflow checks
C25_WrapAroundWithoutChecks ==
    ~overflow_checks => C25_WrapAroundOffsets

\* sequence a is a prefix of sequence b
IsPrefix(a, b) == Len(a) <= Len(b) /\ a = SubSeq(b, 1, Len(a))

\* C26: when greedy_quads has returned and the six face sweeps of the same input
\* run side by side, each with its own visited bitmap, in any order of their
\* steps: no sweep fails, the group of a sweep that has not begun is empty, the
\* group of a running sweep is a prefix of the group greedy_quads produced, and
\* the group of a sweep that has ended is the group greedy_quads produced,
\* whatever the other sweeps have done.
C26_PerFaceIndependence ==
    (pc = "parallel" /\ gres.st = "ok") =>
        \A f \in FaceIds :
            /\ par.st[f] \in {"running", "ok"}
            /\ par.pc[f] = "face" => par.groups[f] = << >>
            /\ par.pc[f] = "cell" => IsPrefix(par.groups[f], gbuf.groups[f])
            /\ par.pc[f] = "done" => par.groups[f] = gbuf.groups[f]

\* the sweep of the last face has ended with quads while the sweep of the first
\* face is under way with a quad emitted and the sweep of the second has not
\* begun; greedy_quads had returned quads in all six groups
C26_Witness ==
    /\ pc = "parallel"
    /\ gres.st = "ok"
    /\ \A f \in FaceIds : gbuf.groups[f] # << >>
    /\ par.pc[6] = "done" /\ par.groups[6] = gbuf.groups[6]
    /\ par.pc[1] = "cell" /\ par.groups[1] # << >> /\ par.groups[1] # gbuf.groups[1]
    /\ par.pc[2] = "face"

\* all six sweeps have ended with the groups of greedy_quads
C26_WitnessAllEnded ==
    /\ pc = "parallel"
    /\ gres.st = "ok"
    /\ \A f \in FaceIds : par.pc[f] = "done" /\ par.st[f] = "ok" /\ gbuf.groups[f] # << >>
    /\ par.groups = gbuf.groups

\* C27: all the cells a quad of greedy_quads covers have the VoxelVisibility of
\* the quad's minimum cell, whatever merge values the voxel type gives.
C27_SameVisibilityMerging ==
    \A f \in FaceIds : \A k \in 1 .. Len(Emitted(f)) :
        \A p \in QuadCells(f, Emitted(f)[k]) :
            get_visibility(VoxelOfCell(p)) = get_visibility(VoxelOfCell(Emitted(f)[k].minimum))

\* the voxels of the buffer that are not Empty and share a merge value share
\* their visibility
MergeValueTellsVisibility ==
    \A i, j \in DOMAIN voxels :
        (/\ get_visibility(voxels[i]) # "Empty"
         /\ get_visibility(voxels[j]) # "Empty"
         /\ merge_value(voxels[i]) = merge_value(voxels[j]))
            => get_visibility(voxels[i]) = get_visibility(voxels[j])

\* C27 for the buffers in which the merge value tells the visibility
C27_SameVisibilityByMergeValue ==
    MergeValueTellsVisibility => C27_SameVisibilityMerging

\* calculate_ao has returned a pattern
AoReturned == pc = "ao" /\ aoc.result # << >> /\ aoc.result.st = "ok"
\* the cell facing the centre across the face of the call, and the cell at the
\* offsets da, db from it in the plane of the face
AoFacing == VAdd(AoCentre, signed_normal(faces[aoc.face]))
AoRingCell(da, db) ==
    [i \in 1 .. 3 |->
        AoFacing[i]
            + (IF i = PlaneAxes(axes(faces[aoc.face].permutation)[1])[1] THEN da ELSE 0)
            + (IF i = PlaneAxes(axes(faces[aoc.face].permutation)[1])[2] THEN db ELSE 0)]
\* 1 when that cell is Opaque, 0 when it is Translucent or Empty
Occludes(da, db) == IF VisibilityOfCell(AoRingCell(da, db)) = "Opaque" THEN 1 ELSE 0
\* the value of the corner at the side da, db of the facing cell (da, db in -1, 1)
CornerRule(da, db) ==
    IF Occludes(da, 0) = 1 /\ Occludes(0, db) = 1 THEN 0
    ELSE 3 - (Occludes(da, 0) + Occludes(0, db) + Occludes(da, db))

\* C28: the pattern calculate_ao returns holds, for the four corners of the
\* facing cell in its plane, the value of the corner rule: 0 when both side
\* neighbours of the corner are Opaque, otherwise 3 minus the number of Opaque
\* cells among the two side neighbours and the diagonal neighbour; every
\* value is in 0 .. 3.
C28_AoCornerRule ==
    AoReturned =>
        /\ aoc.result.ao = <<CornerRule(-1, -1), CornerRule(-1, 1),
                              CornerRule(1, -1), CornerRule(1, 1)>>
        /\ \A i \in 1 .. 4 : aoc.result.ao[i] \in 0 .. 3

\* calculate_ao has returned a pattern with the values 0, 1 and 2 for a cell
\* that has a Translucent cell next to the corner whose value is 2
C28_Witness ==
    /\ AoReturned
    /\ {0, 1, 2} \subseteq {aoc.result.ao[i] : i \in 1 .. 4}
    /\ \E da, db \in {-1, 1} :
           /\ CornerRule(da, db) = 2
           /\ \/ VisibilityOfCell(AoRingCell(da, 0)) = "Translucent"
              \/ VisibilityOfCell(AoRingCell(0, db)) = "Translucent"
              \/ VisibilityOfCell(AoRingCell(da, db)) = "Translucent"

\* a sweep of the face cur.face is under way
SweepRunning == pc = "cell" /\ gres.st = "running"
\* the indices whose visited entry is true
VisitedIndices == {i \in 0 .. Len(gbuf.visited) - 1 : gbuf.visited[i + 1]}
\* the indices of the cells the quads of group f cover
CoveredIndices(f) == {Linearize(shape, p) : p \in GreedyCover(f)}
\* no two quads of group f share a cell or a minimum
GroupDisjoint(f) ==
    \A k, l \in 1 .. Len(Emitted(f)) :
        k # l =>
            /\ QuadCells(f, Emitted(f)[k]) \cap QuadCells(f, Emitted(f)[l]) = {}
            /\ Emitted(f)[k].minimum # Emitted(f)[l].minimum

\* C29: at every point of a face sweep the visited entries that are true are
\* exactly those of the cells covered by the quads the sweep has pushed to the
\* group of its face so far; in every group no two quads cover a common cell and
\* no two quads have the same minimum.
C29_VisitedAndDisjoint ==
    /\ SweepRunning => VisitedIndices = CoveredIndices(cur.face)
    /\ \A f \in FaceIds : GroupDisjoint(f)

\* a sweep is under way that has pushed at least two quads, one of them of
\* more than one cell
C29_Witness ==
    /\ SweepRunning
    /\ Len(gbuf.groups[cur.face]) >= 2
    /\ \E k \in 1 .. Len(gbuf.groups[cur.face]) :
           gbuf.groups[cur.face][k].width * gbuf.groups[cur.face][k].height >= 2
    /\ VisitedIndices # {}

\* the sequence s repeated n times
RECURSIVE Repeated(_, _)
Repeated(s, n) == IF n = 0 THEN << >> ELSE s \o Repeated(s, n - 1)
\* the groups `before`, each followed by n copies of the group of `single`
FollowedByCopies(before, single, n) ==
    [f \in FaceIds |-> before[f] \o Repeated(single[f], n)]
\* the groups one call of visible_block_faces on the input leaves in a new buffer
SingleCallGroups ==
    visible_block_faces(voxels, shape, qmin, qmax, faces, NewUnitQuadBuffer,
                        overflow_checks).groups

\* C30: visible_block_faces keeps the quads the buffer holds: after every call
\* that does not end in an unchecked read outside the buffer, each group
\* begins with what it held before the first call, and after n calls that
\* returned, on the same input and without a reset, each group is what it held
\* before the first call followed by n copies of the result of a single call
\* (n copies of it when the buffer was empty); greedy_quads, once it has
\* accepted its arguments, starts its first sweep with six empty groups
\* whatever the buffer held.
C30_UnitQuadsAccumulate ==
    /\ sres.st # "ub" =>
           \A f \in FaceIds : IsPrefix(pre.ubuf.groups[f], ubuf.groups[f])
    /\ (calls >= 1 /\ sres.st = "ok") =>
           ubuf.groups = FollowedByCopies(pre.ubuf.groups, SingleCallGroups, calls)
    /\ (pc = "face" /\ cur.face = 1) => gbuf.groups = EmptyGroups

\* the caller has called visible_block_faces three times with a buffer that held
\* a quad, each call has added quads to the group of that quad, and greedy_quads
\* has then returned with a buffer that came in with a quad
C30_Witness ==
    /\ pc = "done"
    /\ calls = 3
    /\ sres.st = "ok"
    /\ gres.st = "ok"
    /\ pre.ubuf = UsedUnitQuadBuffer
    /\ Len(ubuf.groups[4]) >= Len(pre.ubuf.groups[4]) + 3
    /\ pre.gbuf.groups # EmptyGroups

====
